---- MODULE Spec2Model ----
(***************************************************************************)
(* SumkDFTTools (python/triqs_dft_tools/sumk_dft_tools.py): the distributed *)
(* k-sum of density_of_states, occupations, spectral_contours, spaghettis   *)
(* (both through gen_Akw) and partial_charges, run by `size` MPI ranks.     *)
(*                                                                         *)
(* A Green's function is kept symbolically: a BlockGf is a bag (multiset)  *)
(* of terms, one term per (k-point, spin block) contribution, so that a    *)
(* sum is a bag union and "contributes exactly once" is a statement about  *)
(* multiplicities.  A term records what was done to the contribution:      *)
(* weighting, masking, the projector used and the corrections applied.     *)
(***************************************************************************)
EXTENDS Bags, FiniteSets, Integers, Sequences, TLC

\* ------------------------------------------------------------------ bounds
MaxWorkers == 2
MaxK == 2
MaxShells == 2
MaxParproj == 2

\* ----------------------------------------------------------- python values
\* Python strings are sequences of characters, so that `in` on a string is
\* the substring test it is in Python.  None is a value no string equals.
None == <<"None">>
wann == <<"w", "a", "n", "n">>
vasp == <<"v", "a", "s", "p">>
wien2k == <<"w", "i", "e", "n", "2", "k">>
elk == <<"e", "l", "k">>
wan == <<"w", "a", "n">>
empty == << >>

\* s in t, for Python strings s and t
StrIn(s, t) ==
    \E i \in 1..(Len(t) + 1) :
        /\ i + Len(s) - 1 <= Len(t)
        /\ SubSeq(t, i, i + Len(s) - 1) = s

\* bool(x) of a string or None
Truthy(x) == x # None /\ x # empty

\* range(n) as the list 0, .., n-1
Range(n) == [i \in 1..n |-> i - 1]

SeqToSet(s) == {s[i] : i \in DOMAIN s}

\* ------------------------------------------------------------------- bags
RECURSIVE SumCopies(_, _)
SumCopies(S, B) ==
    IF S = {} THEN 0
    ELSE LET t == CHOOSE x \in S : TRUE
         IN  B[t] + SumCopies(S \ {t}, B)

\* the bag of F(t) for the members t of B, with their multiplicities
BagMap(B, F(_)) ==
    LET D == {F(t) : t \in DOMAIN B}
    IN  [u \in D |-> SumCopies({t \in DOMAIN B : F(t) = u}, B)]

BagFilter(B, P(_)) == [t \in {u \in DOMAIN B : P(u)} |-> B[t]]

\* the bag union of f[i] over the indices i in S
RECURSIVE BagSum(_, _)
BagSum(S, f) ==
    IF S = {} THEN EmptyBag
    ELSE LET i == CHOOSE x \in S : TRUE
         IN  f[i] (+) BagSum(S \ {i}, f)

\* ----------------------------------------------------- Green's functions
\* the contribution of k-point ik, spin block b, as lattice_gf returns it:
\* not weighted (bz), not masked (occ), not projected (projector k-point pk,
\* shell sh, shell set st and partial projector ir; -1 is "none"), with no
\* correction applied (ops)
Term(ik, b) ==
    [k |-> ik, b |-> b, bz |-> FALSE, occ |-> FALSE,
     pk |-> -1, sh |-> -1, st |-> "latt", ir |-> -1, ops |-> << >>]

\* the stacking offset ik * plot_shift added to a row of block b
ShiftTerm(ik, b) == [Term(ik, b) EXCEPT !.st = "shift"]

\* G.zero()
zero == EmptyBag

\* G[bname]
Block(G, bname) == BagFilter(G, LAMBDA t : t.b = bname)

\* G[bname] << X
SetBlock(G, bname, X) == BagFilter(G, LAMBDA t : t.b # bname) (+) X

\* G *= bz_weights[ik]
Weighted(G) == BagMap(G, LAMBDA t : [t EXCEPT !.bz = TRUE])

\* a mask that leaves G as it is
Unmasked(G) == G

\* G[bname].data *= occik[bname][ik], for every block
Masked(G) == BagMap(G, LAMBDA t : [t EXCEPT !.occ = TRUE])

\* spin_block_names[SO]
spin_block_names(SO) == IF SO = 0 THEN <<"up", "down">> ELSE <<"ud">>

\* ------------------------------------------------- external collaborators
\* triqs.utility.mpi.slice_array: the contiguous slice of A owned by `rank`
slice_inf(imin, imax, rank, sz) ==
    LET j == (imax - imin + 1) \div sz
        i == imax - imin + 1 - sz * j
    IN  IF rank <= i - 1 THEN imin + rank * (j + 1) ELSE imin + rank * j + i

slice_sup(imin, imax, rank, sz) ==
    LET j == (imax - imin + 1) \div sz
        i == imax - imin + 1 - sz * j
    IN  IF rank <= i - 1 THEN imin + (rank + 1) * (j + 1) - 1
        ELSE imin + (rank + 1) * j + i - 1

slice_array(A, rank, sz) ==
    LET imin == slice_inf(0, Len(A) - 1, rank, sz)
        imax == slice_sup(0, Len(A) - 1, rank, sz)
    IN  SubSeq(A, imin + 1, imax + 1)

\* SumkDFT.lattice_gf(ik, ...): one block per spin block name
lattice_gf(ik, spn) == SetToBag({Term(ik, spn[i]) : i \in DOMAIN spn})

\* SumkDFT.downfold(ik, ish, bname, gf_to_downfold, gf_inp, shells, ir): the
\* projector-sandwiched gf_to_downfold; gf_inp is a template for the shape only
downfold(ik, ish, bname, gf_to_downfold, gf_inp, shells, ir) ==
    BagMap(gf_to_downfold,
           LAMBDA t : [t EXCEPT !.pk = ik, !.sh = ish, !.st = shells, !.ir = ir])

\* SumkDFT.rotloc(ish, gf, direction='toLocal', shells): the similarity
\* transform of gf by the rotation matrix of shell ish
rotloc(ish, gf, shells) ==
    BagMap(gf, LAMBDA t : [t EXCEPT !.ops = Append(t.ops, <<"rot", ish, shells>>)])

\* Symmetry.symmetrize(G_loc): every shell is replaced by the average over
\* its orbit; the shells of the list form one orbit
symmetrize(G_loc) ==
    LET avg == BagSum(DOMAIN G_loc,
                      [jsh \in DOMAIN G_loc |->
                          BagMap(G_loc[jsh],
                                 LAMBDA t : [t EXCEPT !.ops = Append(t.ops, <<"sym">>)])])
    IN  [ish \in DOMAIN G_loc |-> avg]

\* SumkDFT.read_input_from_hdf(subgrp, things_to_read): the names not found
read_input_from_hdf(ar, subgrp, things_to_read) ==
    SelectSeq(things_to_read, LAMBDA it : <<subgrp, it>> \notin ar)

\* --------------------------------------------------------- proj_type_G_loc
\* for bname, gf in G: G[bname] << self.downfold(ik, ish, bname, G_latt[bname], gf, shells, ir)
RECURSIVE downfold_blocks(_, _, _, _, _, _, _, _)
downfold_blocks(G, G_latt, ik, ish, shells, ir, spn, i) ==
    IF i > Len(spn) THEN G
    ELSE downfold_blocks(
             SetBlock(G, spn[i],
                      downfold(ik, ish, spn[i], Block(G_latt, spn[i]),
                               Block(G, spn[i]), shells, ir)),
             G_latt, ik, ish, shells, ir, spn, i + 1)

\* a 'wien2k' projection that keeps the first partial projector only
wien2k_loop_first_only(G_proj, G_latt, ik, ish, ir, n, spn) ==
    IF n = 0 THEN G_proj
    ELSE G_proj (+) downfold_blocks(zero, G_latt, ik, ish, "all", 0, spn, 1)

\* for ir in range(self.n_parproj[ish]): tmp.zero(); tmp[..] << downfold; G_proj += tmp
RECURSIVE wien2k_loop(_, _, _, _, _, _, _)
wien2k_loop(G_proj, G_latt, ik, ish, ir, n, spn) ==
    IF ir >= n THEN G_proj
    ELSE LET tmp == downfold_blocks(zero, G_latt, ik, ish, "all", ir, spn, 1)
         IN  wien2k_loop(G_proj (+) tmp, G_latt, ik, ish, ir + 1, n, spn)

proj_type_G_loc(G_latt, G_inp, ik, ish, proj_type, spn, n_parproj) ==
    LET G_proj == G_inp
    IN  IF proj_type = wann
        THEN downfold_blocks(G_proj, G_latt, ik, ish, "corr", -1, spn, 1)
        ELSE IF proj_type = vasp
        THEN downfold_blocks(G_proj, G_latt, ik, ish, "csc", -1, spn, 1)
        ELSE IF proj_type = wien2k
        THEN wien2k_loop(G_proj, G_latt, ik, ish, 0, n_parproj[ish], spn)
        ELSE G_proj

\* a proj_type_G_loc that works on G_inp itself (G_proj = G_inp, no copy)
proj_type_G_loc_in_place(G_latt, G_inp, ik, ish, proj_type, spn, n_parproj) ==
    LET G_proj == proj_type_G_loc(G_latt, G_inp, ik, ish, proj_type, spn, n_parproj)
    IN  [G_proj |-> G_proj, G_latt |-> G_latt, G_inp |-> G_proj, fresh |-> FALSE]

\* one call of proj_type_G_loc as its caller sees it: the object returned and
\* the two arguments as the call leaves them.  G_proj = G_inp.copy() is a new
\* object, and every assignment of the three branches goes to G_proj or to
\* tmp = G_proj.copy(); G_latt and G_inp are only read
proj_type_G_loc_effect(G_latt, G_inp, ik, ish, proj_type, spn, n_parproj) ==
    [G_proj |-> proj_type_G_loc(G_latt, G_inp, ik, ish, proj_type, spn, n_parproj),
     G_latt |-> G_latt, G_inp |-> G_inp, fresh |-> TRUE]

\* tmp = G.copy() that is left as it is
template_not_zeroed(G) == G

\* tmp = G.copy(); tmp.zero()
template(G) == zero

\* partial_charges, one shell of one k-point:
\*   tmp = G_loc[ish].copy()
\*   for ir in range(self.n_parproj[ish]): tmp[..] << downfold; G_loc[ish] += tmp
RECURSIVE partial_charges_loop(_, _, _, _, _, _, _, _)
partial_charges_loop(G, tmp, G_latt, ik, ish, ir, n, spn) ==
    IF ir >= n THEN G
    ELSE LET tmp2 == downfold_blocks(tmp, G_latt, ik, ish, "all", ir, spn, 1)
         IN  partial_charges_loop(G (+) tmp2, tmp2, G_latt, ik, ish, ir + 1, n, spn)

partial_charges_shell(G, G_latt, ik, ish, n, spn) ==
    partial_charges_loop(G, G, G_latt, ik, ish, 0, n, spn)

\* ------------------------------------------------------------- exceptions
NoErr == [type |-> "none", what |-> "", args |-> << >>, values_not_read |-> << >>]

Err(type, what) == [type |-> type, what |-> what, args |-> << >>, values_not_read |-> << >>]

\* the outcome of a run of statements: the exception raised (if any) and the
\* archive subgroups read on the way
Pass == [err |-> NoErr, reads |-> << >>]

\* assert ok, "..."
Check(ok, what) == [err |-> IF ok THEN NoErr ELSE Err("AssertionError", what), reads |-> << >>]

\* r1 ; r2
Then(r1, r2) ==
    IF r1.err.type # "none" THEN r1
    ELSE [err |-> r2.err, reads |-> r1.reads \o r2.reads]

\* subgroup_present, values_not_read = self.read_input_from_hdf(subgrp, things_to_read)
\* if len(values_not_read) > 0 and mpi.is_master_node:
\*     raise ValueError('ERROR: ...', self.values_not_read)
\* mpi.is_master_node is the function itself (it is not called), which is true
\* on every rank; the exception carries the attribute self.values_not_read,
\* not the local values_not_read.
read_or_raise(slf, ar, subgrp, things_to_read) ==
    LET values_not_read == read_input_from_hdf(ar, subgrp, things_to_read)
    IN  [err |-> IF Len(values_not_read) > 0
                 THEN IF slf.has_values_not_read
                      THEN [type |-> "ValueError", what |-> "missing input",
                            args |-> slf.values_not_read,
                            values_not_read |-> values_not_read]
                      ELSE [type |-> "AttributeError", what |-> "missing input",
                            args |-> << >>, values_not_read |-> values_not_read]
                 ELSE NoErr,
         reads |-> <<subgrp>>]

\* load_parproj(data_type)
load_parproj(slf, ar, data_type) ==
    Then(read_or_raise(slf, ar,
                       IF data_type = "band" THEN "bands_data" ELSE "parproj_data",
                       <<"n_parproj", "proj_mat_all">>),
         read_or_raise(slf, ar, "parproj_data",
                       <<"rot_mat_all", "rot_mat_all_time_inv">>))

\* ------------------------------------------------------ validation of a call
\* a scheme check that does not compare the scheme with the backend
density_of_states_scheme_any_backend(proj_type, dft_code) ==
    IF proj_type # None
    THEN Check(proj_type \in {wann, vasp, wien2k}, "proj_type")
    ELSE Pass

\* density_of_states: proj_type in ('wann', 'vasp', 'wien2k'), a tuple
density_of_states_scheme(proj_type, dft_code) ==
    IF proj_type # None
    THEN Then(Check(proj_type \in {wann, vasp, wien2k}, "proj_type"),
              IF proj_type # wann THEN Check(proj_type = dft_code, "dft_code") ELSE Pass)
    ELSE Pass

\* spaghettis: proj_type in ('wann', 'wien2k'), a tuple
spaghettis_scheme(proj_type, dft_code) ==
    IF proj_type # None
    THEN Then(Check(proj_type \in {wann, wien2k}, "proj_type"),
              IF proj_type # wann THEN Check(proj_type = dft_code, "dft_code") ELSE Pass)
    ELSE Pass

\* spectral_contours: proj_type in ('wann'), which is the string 'wann'
spectral_contours_scheme(proj_type) ==
    IF proj_type # None THEN Check(StrIn(proj_type, wann), "proj_type") ELSE Pass

\* a mesh check that takes self.mesh as it is
real_mesh_unchecked_self(with_Sigma, Sigma_mesh, mesh, self_mesh) ==
    IF with_Sigma
    THEN IF Sigma_mesh = "MeshReFreq" THEN Sigma_mesh ELSE "invalid"
    ELSE IF mesh # "None"
    THEN IF mesh = "MeshReFreq" THEN mesh ELSE "invalid"
    ELSE self_mesh

\* the mesh a real-frequency operation uses; "invalid" when an assert fails
real_mesh(with_Sigma, Sigma_mesh, mesh, self_mesh) ==
    IF with_Sigma
    THEN IF Sigma_mesh = "MeshReFreq" THEN Sigma_mesh ELSE "invalid"
    ELSE IF mesh # "None"
    THEN IF mesh = "MeshReFreq" THEN mesh ELSE "invalid"
    ELSE IF self_mesh # "None"
    THEN IF self_mesh = "MeshReFreq" THEN self_mesh ELSE "invalid"
    ELSE "invalid"

real_mesh_check(a, slf) ==
    Check(real_mesh(a.with_Sigma, slf.Sigma_mesh, a.mesh, slf.mesh) # "invalid", "mesh")

\* occupations: the mesh used must be a MeshImFreq
occupations_mesh(with_Sigma, Sigma_mesh, self_mesh) ==
    IF with_Sigma THEN Sigma_mesh ELSE self_mesh

\* the statements of each operation that precede its k-loop (gen_Akw apart)
density_of_states_pre(a, slf, ar) ==
    Then(density_of_states_scheme(a.proj_type, slf.dft_code),
    Then(real_mesh_check(a, slf),
    Then(IF a.dosocc THEN read_or_raise(slf, ar, "misc_data", <<"occik">>) ELSE Pass,
         IF a.proj_type = wien2k THEN load_parproj(slf, ar, "None") ELSE Pass)))

occupations_pre(a, slf, ar) ==
    Check(occupations_mesh(a.with_Sigma, slf.Sigma_mesh, slf.mesh) = "MeshImFreq", "mesh")

spectral_contours_pre(a, slf, ar) ==
    Then(spectral_contours_scheme(a.proj_type),
    Then(read_or_raise(slf, ar, "cont_data",
                       <<"n_k", "bmat", "BZ_n_k", "BZ_iknr", "BZ_vkl",
                         "n_orbitals", "proj_mat", "hopping">>),
         real_mesh_check(a, slf)))

spaghettis_pre(a, slf, ar) ==
    Then(spaghettis_scheme(a.proj_type, slf.dft_code),
    Then(read_or_raise(slf, ar, "bands_data",
                       <<"n_k", "n_orbitals", "proj_mat", "hopping">>),
    Then(IF a.proj_type = wien2k THEN load_parproj(slf, ar, "band") ELSE Pass,
         real_mesh_check(a, slf))))

\* partial_charges: self.dft_code in ('wien2k'), which is the string 'wien2k'
partial_charges_pre(a, slf, ar) ==
    Then(Check(StrIn(slf.dft_code, wien2k), "dft_code"),
         read_or_raise(slf, ar, "parproj_data",
                       <<"dens_mat_below", "n_parproj", "proj_mat_all",
                         "rot_mat_all", "rot_mat_all_time_inv">>))

\* an optional list argument: None, or a list
NoList == [given |-> FALSE, list |-> << >>]

List(l) == [given |-> TRUE, list |-> l]

\* ----------------------------------------------------------------- gen_Akw
\* what spaghettis and spectral_contours hand to gen_Akw
gen_Akw_args(a) ==
    IF a.op = "spectral_contours"
    THEN [a EXCEPT !.shell_list = NoList, !.plot_shift = 0]
    ELSE a

\* the set-up of the projected A(k,w): n_shells, shells_type and shell_list as
\* the k-loop finds them (n_shells = -1: the name is not bound)
Unbound == [err |-> NoErr, n_shells |-> -1, shell_list |-> << >>, shells_type |-> "unbound"]

gen_Akw_setup(a, slf) ==
    LET pt == a.proj_type
        known == pt \in {wann, wien2k}
        n0 == IF pt = wann THEN slf.n_corr_shells ELSE slf.n_shells
        st == IF pt = wann THEN "corr" ELSE "all"
        sl == a.shell_list.list
    IN  IF ~Truthy(pt) THEN Unbound
        ELSE IF a.shell_list.given
        THEN IF sl # << >> /\ ~known
             THEN [Unbound EXCEPT !.err = Err("NameError", "n_shells")]
             ELSE IF \E i \in DOMAIN sl : (sl[i] > n0) \/ (sl[i] < 0)
             THEN [Unbound EXCEPT !.err = Err("IOError", "shell_list")]
             ELSE IF \E i \in DOMAIN sl : sl[i] >= slf.n_shells
             THEN [Unbound EXCEPT !.err = Err("IndexError", "self.shells")]
             ELSE IF known /\ Len(sl) > n0
             THEN [Unbound EXCEPT !.err = Err("IndexError", "dims")]
             ELSE [err |-> NoErr, n_shells |-> Len(sl), shell_list |-> sl,
                   shells_type |-> IF known THEN st ELSE "unbound"]
        ELSE IF ~known
             THEN [Unbound EXCEPT !.err = Err("NameError", "n_shells")]
             ELSE [err |-> NoErr, n_shells |-> n0, shell_list |-> Range(n0),
                   shells_type |-> st]

\* the number of rotation matrices of a shell set
n_rot(slf, shells_type) == IF shells_type = "corr" THEN slf.n_corr_shells ELSE slf.n_shells

\* for bname, gf in G: G[bname] << self.rotloc(jsh, gf, direction='toLocal', shells=shells_type)
RECURSIVE rotloc_blocks(_, _, _, _, _)
rotloc_blocks(G, jsh, shells_type, spn, i) ==
    IF i > Len(spn) THEN G
    ELSE rotloc_blocks(SetBlock(G, spn[i], rotloc(jsh, Block(G, spn[i]), shells_type)),
                       jsh, shells_type, spn, i + 1)

\* a total A(k,w) that adds the offset to what the row holds, for every block
RECURSIVE gen_Akw_total_accumulating(_, _, _, _, _, _)
gen_Akw_total_accumulating(row, G_latt_w, ik, plot_shift, spn, i) ==
    IF i > Len(spn) THEN row
    ELSE LET val == Block(G_latt_w, spn[i])
             shifted == IF ik * plot_shift # 0
                        THEN val (+) SetToBag({ShiftTerm(ik, spn[Len(spn)])}) ELSE val
         IN  gen_Akw_total_accumulating(row (+) shifted, G_latt_w, ik, plot_shift, spn, i + 1)

\* Akw[bname][ik] = -trace(Im G_latt_w[bname]) / pi ; Akw[bname][ik] += ik * plot_shift
RECURSIVE gen_Akw_total(_, _, _, _, _, _)
gen_Akw_total(row, G_latt_w, ik, plot_shift, spn, i) ==
    IF i > Len(spn) THEN row
    ELSE LET val == Block(G_latt_w, spn[i])
             shifted == IF ik * plot_shift # 0
                        THEN val (+) SetToBag({ShiftTerm(ik, spn[i])}) ELSE val
         IN  gen_Akw_total(SetBlock(row, spn[i], shifted), G_latt_w, ik, plot_shift, spn, i + 1)

\* for bname, gf in G_loc[ish]:
\*     pAkw_orb[ish][bname][ik] = -Im gf / pi
\*     pAkw_orb[ish][sp][ik] += ik * plot_shift
\* sp is the variable the set-up loop `for sp in spn` left behind: the last block
RECURSIVE gen_Akw_projected(_, _, _, _, _, _)
gen_Akw_projected(row, G, ik, plot_shift, spn, i) ==
    IF i > Len(spn) THEN row
    ELSE LET sp == spn[Len(spn)]
             assigned == SetBlock(row, spn[i], Block(G, spn[i]))
             shifted == IF ik * plot_shift # 0
                        THEN assigned (+) SetToBag({ShiftTerm(ik, sp)}) ELSE assigned
         IN  gen_Akw_projected(shifted, G, ik, plot_shift, spn, i + 1)

\* ------------------------------------------- the k-indices a rank iterates
\* a density_of_states whose ranks all iterate the whole range
density_of_states_ks_all(n_k, rank, sz) == Range(n_k)

\* for ik in mpi.slice_array(ikarray)
density_of_states_ks(n_k, rank, sz) == slice_array(Range(n_k), rank, sz)

\* a gen_Akw whose ranks all iterate the whole range
gen_Akw_ks_all(n_k, rank, sz) == Range(n_k)

gen_Akw_ks(n_k, rank, sz) == slice_array(Range(n_k), rank, sz)

partial_charges_ks(n_k, rank, sz) == slice_array(Range(n_k), rank, sz)

\* for ik in range(self.n_k)
occupations_ks(n_k, rank, sz) == Range(n_k)

ks_of(op, n_k, rank, sz) ==
    CASE op = "density_of_states" -> density_of_states_ks(n_k, rank, sz)
      [] op = "occupations" -> occupations_ks(n_k, rank, sz)
      [] op = "partial_charges" -> partial_charges_ks(n_k, rank, sz)
      [] OTHER -> gen_Akw_ks(n_k, rank, sz)

\* ------------------------------------------------ the order of the phases
\* the phases with the rotation ahead of the symmetrization
Program_rotate_first(op) ==
    CASE op = "density_of_states" ->
            <<"init", "kloop", "barrier", "all_reduce", "rotate", "symmetrize", "finish", "done">>
      [] op = "occupations" ->
            <<"init", "kloop", "all_reduce", "barrier", "finish", "done">>
      [] op = "partial_charges" ->
            <<"init", "kloop", "all_reduce", "barrier", "rotate", "symmetrize", "finish", "done">>
      [] op = "print_hamiltonian" ->
            <<"init", "finish", "done">>
      [] OTHER ->
            <<"init", "gen_Akw_init", "kloop", "barrier", "all_reduce", "barrier_end",
              "finish", "done">>

\* the phases with the corrections ahead of the reduction
Program_correct_first(op) ==
    CASE op = "density_of_states" ->
            <<"init", "kloop", "symmetrize", "rotate", "barrier", "all_reduce", "finish", "done">>
      [] op = "occupations" ->
            <<"init", "kloop", "all_reduce", "barrier", "finish", "done">>
      [] op = "partial_charges" ->
            <<"init", "kloop", "symmetrize", "rotate", "all_reduce", "barrier", "finish", "done">>
      [] op = "print_hamiltonian" ->
            <<"init", "finish", "done">>
      [] OTHER ->
            <<"init", "gen_Akw_init", "kloop", "barrier", "all_reduce", "barrier_end",
              "finish", "done">>

\* the phases without the collectives of density_of_states
Program_no_collectives(op) ==
    CASE op = "density_of_states" ->
            <<"init", "kloop", "symmetrize", "rotate", "finish", "done">>
      [] op = "occupations" ->
            <<"init", "kloop", "all_reduce", "barrier", "finish", "done">>
      [] op = "partial_charges" ->
            <<"init", "kloop", "all_reduce", "barrier", "symmetrize", "rotate", "finish", "done">>
      [] op = "print_hamiltonian" ->
            <<"init", "finish", "done">>
      [] OTHER ->
            <<"init", "gen_Akw_init", "kloop", "barrier", "all_reduce", "barrier_end",
              "finish", "done">>

\* the phases with the all_reduce of density_of_states ahead of its barrier
Program_reduce_first(op) ==
    CASE op = "density_of_states" ->
            <<"init", "kloop", "all_reduce", "barrier", "symmetrize", "rotate", "finish", "done">>
      [] op = "occupations" ->
            <<"init", "kloop", "all_reduce", "barrier", "finish", "done">>
      [] op = "partial_charges" ->
            <<"init", "kloop", "all_reduce", "barrier", "symmetrize", "rotate", "finish", "done">>
      [] op = "print_hamiltonian" ->
            <<"init", "finish", "done">>
      [] OTHER ->
            <<"init", "gen_Akw_init", "kloop", "barrier", "all_reduce", "barrier_end",
              "finish", "done">>

\* the phases of each operation, in the order of its statements
Program(op) ==
    CASE op = "density_of_states" ->
            <<"init", "kloop", "barrier", "all_reduce", "symmetrize", "rotate", "finish", "done">>
      [] op = "occupations" ->
            <<"init", "kloop", "all_reduce", "barrier", "finish", "done">>
      [] op = "partial_charges" ->
            <<"init", "kloop", "all_reduce", "barrier", "symmetrize", "rotate", "finish", "done">>
      [] op = "print_hamiltonian" ->
            <<"init", "finish", "done">>
      [] OTHER ->
            <<"init", "gen_Akw_init", "kloop", "barrier", "all_reduce", "barrier_end",
              "finish", "done">>

\* the phase that follows phase p
Succ(op, p) ==
    LET prog == Program(op)
        i == CHOOSE j \in DOMAIN prog : prog[j] = p
    IN  prog[i + 1]

\* ------------------------------------------------------------ the inputs
Ops == {"density_of_states", "occupations", "spectral_contours", "spaghettis",
        "partial_charges"}

\* the entries of the archive the operations read
AllEntries ==
    {<<"misc_data", "occik">>}
    \cup {<<"parproj_data", it>> : it \in {"dens_mat_below", "n_parproj", "proj_mat_all",
                                          "rot_mat_all", "rot_mat_all_time_inv"}}
    \cup {<<"bands_data", it>> : it \in {"n_k", "n_orbitals", "proj_mat", "hopping",
                                        "n_parproj", "proj_mat_all"}}
    \cup {<<"cont_data", it>> : it \in {"n_k", "bmat", "BZ_n_k", "BZ_iknr", "BZ_vkl",
                                       "n_orbitals", "proj_mat", "hopping"}}

\* the mesh an operation needs
MeshFor(op) ==
    IF op \in {"occupations", "partial_charges"} THEN "MeshImFreq" ELSE "MeshReFreq"

\* the schemes an operation documents
ProjFor(op) ==
    CASE op = "density_of_states" -> {None, wann, vasp, wien2k}
      [] op = "spaghettis" -> {None, wann, wien2k}
      [] op = "spectral_contours" -> {None, wann}
      [] OTHER -> {None}

\* the attributes density_of_states sweeps over, which the constructor reads
\* from the subgroup dft_input together with bz_weights
KData == {"n_k", "n_orbitals", "proj_mat", "hopping"}

\* a well-formed call of op on sz ranks: one shell with one partial projector,
\* no symmetry operator, no rotation, every archive entry present, a
\* lattice_gf that raises at no k-point (fault_k = -1)
Config(op, pt, sz, nk, so) ==
    [arg |-> [op |-> op, proj_type |-> pt, with_Sigma |-> TRUE, mesh |-> "None",
              mu |-> "None", broadening |-> "None", with_dc |-> TRUE,
              dosocc |-> FALSE, shell_list |-> NoList, save_occ |-> TRUE,
              save_to_file |-> TRUE, plot_shift |-> 0],
     self |-> [dft_code |-> IF pt = vasp THEN vasp ELSE wien2k,
               Sigma_mesh |-> MeshFor(op), mesh |-> MeshFor(op),
               symm_op |-> 0, use_rotations |-> FALSE, SO |-> so, n_k |-> nk,
               n_corr_shells |-> 1, n_shells |-> 1, n_parproj |-> [ish \in {0} |-> 1],
               has_values_not_read |-> TRUE, values_not_read |-> << >>,
               fault_k |-> -1, SP |-> 1,
               bz_n_k |-> nk, n_k_of |-> [bands_data |-> nk, cont_data |-> nk],
               k_data |-> [it \in KData |-> "dft_input"]],
     archive |-> AllEntries,
     size |-> sz,
     caller |-> IF op = "occupations" THEN <<"density_of_states">> ELSE << >>]

\* the partition: every operation and scheme, every number of ranks and k-points
PartitionConfigs ==
    {[Config(op, pt, sz, nk, so) EXCEPT !.arg.dosocc = occ, !.arg.plot_shift = ps] :
        op \in Ops, pt \in {None, wann, vasp, wien2k}, sz \in 1..MaxWorkers,
        nk \in 0..MaxK, so \in {0, 1}, occ \in BOOLEAN, ps \in {0, 1}}

\* the shells: n_shells shells of which the first n_corr are correlated, shell
\* ish with (ish + p) mod (MaxParproj + 1) partial projectors
ShellConfigs ==
    {[Config(op, pt, MaxWorkers, MaxK, so) EXCEPT
          !.self.n_shells = n, !.self.n_corr_shells = c,
          !.self.n_parproj = [ish \in 0..(n - 1) |-> (ish + p) % (MaxParproj + 1)]] :
        op \in Ops \ {"occupations"}, pt \in {None, wann, vasp, wien2k}, so \in {0, 1},
        n \in 1..MaxShells, c \in 1..MaxShells, p \in 1..MaxParproj}

\* the corrections: symmetry operator and rotations, on MaxShells shells
CorrectionConfigs ==
    {[Config(op, pt, sz, nk, 1) EXCEPT
          !.self.symm_op = sy, !.self.use_rotations = rot,
          !.self.n_shells = MaxShells, !.self.n_corr_shells = MaxShells,
          !.self.n_parproj = [ish \in 0..(MaxShells - 1) |-> 1]] :
        op \in Ops \ {"occupations"}, pt \in {None, wann, vasp, wien2k}, sz \in 1..MaxWorkers,
        nk \in {1, MaxK}, sy \in {0, 1}, rot \in BOOLEAN}

\* the scheme: every proj_type against every backend
ProjTypes == {None, wann, vasp, wien2k, elk, wan, <<"a">>, empty}

DftCodes == {wien2k, vasp, elk, <<"h", "k">>}

SchemeConfigs ==
    {[Config(op, pt, sz, 1, 1) EXCEPT !.self.dft_code = code] :
        op \in Ops, pt \in ProjTypes, code \in DftCodes, sz \in 1..MaxWorkers}

\* the mesh: every kind of self-energy mesh, mesh argument and self.mesh
MeshKinds == {"None", "MeshReFreq", "MeshImFreq"}

MeshConfigs ==
    {[Config(op, None, sz, 1, 1) EXCEPT
          !.arg.with_Sigma = ws, !.self.Sigma_mesh = sm, !.arg.mesh = m, !.self.mesh = om] :
        op \in Ops, sz \in {1, MaxWorkers}, ws \in BOOLEAN,
        sm \in {"MeshReFreq", "MeshImFreq"}, m \in MeshKinds, om \in MeshKinds}

\* the arguments density_of_states hands on to lattice_gf, given and not given
PassThroughConfigs ==
    {[Config("density_of_states", None, sz, nk, 1) EXCEPT
          !.arg.mu = mu, !.arg.broadening = br, !.arg.with_dc = dc,
          !.arg.with_Sigma = ws, !.arg.mesh = m] :
        sz \in 1..MaxWorkers, nk \in 1..MaxK, mu \in {"None", "mu"},
        br \in {"None", "broadening"}, dc \in BOOLEAN, ws \in BOOLEAN,
        m \in {"None", "MeshReFreq"}}

\* the archive: one entry absent, or the two of the first read of load_parproj
AbsentChoices ==
    {{e} : e \in AllEntries}
    \cup {{<<"parproj_data", "n_parproj">>, <<"parproj_data", "proj_mat_all">>}}

ArchiveConfigs ==
    {[Config(op, pt, sz, 1, 1) EXCEPT
          !.archive = AllEntries \ absent, !.arg.dosocc = occ,
          !.self.has_values_not_read = has] :
        op \in Ops, pt \in {None, wann, wien2k}, sz \in {1, MaxWorkers},
        absent \in AbsentChoices, occ \in BOOLEAN, has \in BOOLEAN}

\* the shell list of spaghettis: lists of one or two indices, in and out of range
ShellIndices == (-1)..(MaxShells + 1)

ShellLists == {<<i>> : i \in ShellIndices} \cup {<<i, j>> : i, j \in ShellIndices}

ShellListConfigs ==
    {[Config("spaghettis", pt, sz, 1, 1) EXCEPT
          !.arg.shell_list = List(sl), !.arg.plot_shift = ps,
          !.self.use_rotations = rot, !.self.n_shells = n, !.self.n_corr_shells = c,
          !.self.n_parproj = [ish \in 0..(n - 1) |-> 1]] :
        pt \in {wann, wien2k}, sz \in {1, MaxWorkers}, sl \in ShellLists, ps \in {0, 1},
        rot \in BOOLEAN, n \in 1..MaxShells, c \in 1..MaxShells}

\* the provider: lattice_gf raises at k-point fk
FaultConfigs ==
    {[Config(op, pt, sz, nk, 1) EXCEPT !.self.fault_k = fk] :
        op \in Ops, pt \in {None, wann}, sz \in 1..MaxWorkers, nk \in 1..MaxK,
        fk \in 0..(MaxK - 1)}

\* print_hamiltonian, with and without spin polarisation and spin-orbit coupling
HamiltonianConfigs ==
    {[Config("print_hamiltonian", None, sz, nk, so) EXCEPT !.self.SP = sp] :
        sz \in 1..MaxWorkers, nk \in 0..MaxK, so \in {0, 1}, sp \in {0, 1}}

\* occupations, saving or not, on an archive without the group misc_data,
\* with the group but no occik in it, and with an occik of an earlier run
MiscArchives ==
    {AllEntries, AllEntries \ {<<"misc_data", "occik">>},
     (AllEntries \ {<<"misc_data", "occik">>}) \cup {<<"misc_data", "band_window">>}}

OccupationConfigs ==
    {[Config("occupations", None, sz, nk, so) EXCEPT
          !.arg.save_occ = save, !.archive = ar] :
        sz \in 1..MaxWorkers, nk \in 1..MaxK, so \in {0, 1}, save \in BOOLEAN,
        ar \in MiscArchives}

\* an operation followed by density_of_states on the same object, the band
\* path and the contour having as many k-points as the grid or not
SequenceConfigs ==
    {[Config(op, None, sz, nk, 1) EXCEPT
          !.self.n_k_of = [bands_data |-> nb, cont_data |-> nb],
          !.caller = <<"density_of_states">>] :
        op \in Ops \ {"density_of_states"}, sz \in 1..MaxWorkers, nk \in 1..MaxK,
        nb \in 1..MaxK}

\* a call the object can receive: its scheme is one the operation takes part
\* in, and the correlated shells are among the shells
WellFormed(c) ==
    /\ c.self.n_corr_shells <= c.self.n_shells
    /\ c.arg.op \in {"occupations", "partial_charges"} => c.arg.proj_type = None
    /\ c.arg.op # "density_of_states" => ~c.arg.dosocc
    /\ c.arg.op # "spaghettis" => c.arg.plot_shift = 0
    /\ c.self.fault_k < c.self.n_k
    /\ c.self.SO = 1 => c.self.SP = 1

Configs ==
    {c \in PartitionConfigs \cup ShellConfigs \cup CorrectionConfigs \cup SchemeConfigs
           \cup MeshConfigs \cup ArchiveConfigs \cup ShellListConfigs
           \cup FaultConfigs \cup HamiltonianConfigs \cup OccupationConfigs
           \cup PassThroughConfigs \cup SequenceConfigs :
        WellFormed(c)}

\* -------------------------------------------------------------- the state
VARIABLES
    arg,          \* the arguments of the call (the same on every rank)
    self,         \* the fields of the SumkDFTTools object
    archive,      \* the entries present in the hdf5 archive
    size,         \* mpi.size
    pc,           \* per rank: the phase of the operation it is in
    waiting,      \* per rank: blocked inside a barrier or an all_reduce
    kpos,         \* per rank: how many k-indices of its loop it has done
    loc,          \* per rank: the locals n_shells, shell_list, shells_type
    DOS,          \* per rank: DOS, all blocks
    G_loc,        \* per rank: G_loc[ish]
    occik,        \* per rank: occik[ik], all blocks
    Akw,          \* per rank: Akw[ik], all blocks
    pAkw_orb,     \* per rank: pAkw_orb[ish][ik], all blocks
    err,          \* per rank: the exception that ended the call
    calls,        \* per rank: the calls made to the collaborators, in order
    coll,         \* per rank: the number of collective operations entered
    sendbuf,      \* per rank: what it contributed to the all_reduce
    writes,       \* the files and archive entries written by the call, with the writing rank
    ar_occik,     \* the content of the archive entry misc_data/occik, and who wrote it
    self_occik,   \* per rank: the attribute self.occik
    caller        \* the operations the caller calls after this one, in order

vars == <<arg, self, archive, size, pc, waiting, kpos, loc, DOS, G_loc, occik, Akw,
          pAkw_orb, err, calls, coll, sendbuf, writes, ar_occik, self_occik, caller>>

Ranks == 0..(size - 1)

spn == spin_block_names(self.SO)

\* a test that every rank passes
is_master_node_any(rank) == rank = rank

\* mpi.is_master_node()
is_master_node(rank) == rank = 0

\* the k-indices rank w iterates in this call
ks(w) == ks_of(arg.op, self.n_k, w, size)

\* the phase after the set-up: the k-loop, or what follows it when it is empty
\* a rank without k-indices that leaves the call without the collectives, as
\* if they stood inside the k-loop
AfterSetup_in_loop(w) == IF Len(ks(w)) = 0 THEN "finish" ELSE "kloop"

AfterSetup(w) == IF Len(ks(w)) = 0 THEN Succ(arg.op, "kloop") ELSE "kloop"

\* a list of n zeroed Green's functions
Zeros(n) == [ish \in 0..(n - 1) |-> zero]

\* no occik: the archive entry is absent, the attribute is not set
NoOccik == [by |-> "nobody", value |-> << >>]

EmptyBuf == [DOS |-> zero, G_loc |-> << >>, occik |-> << >>, Akw |-> << >>,
             pAkw_orb |-> << >>]

Init ==
    /\ \E c \in Configs :
          /\ arg = c.arg
          /\ self = c.self
          /\ archive = c.archive
          /\ size = c.size
          /\ caller = c.caller
    /\ pc = [w \in Ranks |-> "init"]
    /\ waiting = [w \in Ranks |-> FALSE]
    /\ kpos = [w \in Ranks |-> 0]
    /\ loc = [w \in Ranks |-> [n_shells |-> -1, shell_list |-> << >>, shells_type |-> "unbound"]]
    /\ DOS = [w \in Ranks |-> zero]
    /\ G_loc = [w \in Ranks |-> << >>]
    /\ occik = [w \in Ranks |-> << >>]
    /\ Akw = [w \in Ranks |-> << >>]
    /\ pAkw_orb = [w \in Ranks |-> << >>]
    /\ err = [w \in Ranks |-> NoErr]
    /\ calls = [w \in Ranks |-> << >>]
    /\ coll = [w \in Ranks |-> 0]
    /\ sendbuf = [w \in Ranks |-> EmptyBuf]
    /\ writes = {}
    /\ ar_occik = IF <<"misc_data", "occik">> \in archive
                  THEN [by |-> "earlier run", value |-> Zeros(self.n_k)]
                  ELSE NoOccik
    /\ self_occik = [w \in Ranks |-> NoOccik]

\* ---------------------------------------------------- the start of a call
\* the statements before the k-loop, by operation
pre(a, slf, ar) ==
    CASE a.op = "density_of_states" -> density_of_states_pre(a, slf, ar)
      [] a.op = "occupations" -> occupations_pre(a, slf, ar)
      [] a.op = "spectral_contours" -> spectral_contours_pre(a, slf, ar)
      [] a.op = "spaghettis" -> spaghettis_pre(a, slf, ar)
      [] a.op = "print_hamiltonian" -> Pass
      [] OTHER -> partial_charges_pre(a, slf, ar)

\* n_shells and shells_type of density_of_states, by scheme
density_of_states_shells(a, slf) ==
    CASE a.proj_type = wann ->
            [n_shells |-> slf.n_corr_shells, shell_list |-> Range(slf.n_corr_shells),
             shells_type |-> "corr"]
      [] a.proj_type = vasp ->
            [n_shells |-> 1, shell_list |-> Range(1), shells_type |-> "csc"]
      [] a.proj_type = wien2k ->
            [n_shells |-> slf.n_shells, shell_list |-> Range(slf.n_shells),
             shells_type |-> "all"]
      [] OTHER ->
            [n_shells |-> 1, shell_list |-> Range(1), shells_type |-> "unbound"]

ReadCalls(reads) == [i \in DOMAIN reads |-> <<"read_input_from_hdf", reads[i]>>]

\* self.read_input_from_hdf(subgrp=self.misc_data, things_to_read=['occik'])
\* sets self.occik when the entry is in the archive
reads_occik(a, reads, ar) ==
    /\ a.op = "density_of_states" /\ a.dosocc
    /\ \E i \in DOMAIN reads : reads[i] = "misc_data"
    /\ <<"misc_data", "occik">> \in ar

\* things_to_read = ['n_k', 'n_orbitals', 'proj_mat', 'hopping', ...]
\* self.read_input_from_hdf(subgrp=self.bands_data, ...)     in spaghettis
\* self.read_input_from_hdf(subgrp=self.cont_data, ...)      in spectral_contours
\* the attributes found in the subgroup replace those of the object
read_k_data(a, slf, reads, ar) ==
    LET subgrp == IF a.op = "spaghettis" THEN "bands_data" ELSE "cont_data"
    IN  IF a.op \in {"spaghettis", "spectral_contours"}
           /\ \E i \in DOMAIN reads : reads[i] = subgrp
        THEN [slf EXCEPT
                 !.n_k = IF <<subgrp, "n_k">> \in ar THEN slf.n_k_of[subgrp] ELSE @,
                 !.k_data = [it \in KData |->
                                IF <<subgrp, it>> \in ar THEN subgrp ELSE @[it]]]
        ELSE slf

\* rank w enters the operation: validation, archive reads, set-up of the
\* accumulators.  An exception ends the call on this rank.
call(w) ==
    /\ pc[w] = "init"
    /\ LET r == pre(arg, self, archive)
       IN  /\ calls' = [calls EXCEPT ![w] = @ \o ReadCalls(r.reads)]
           /\ IF r.err.type # "none"
              THEN /\ pc' = [pc EXCEPT ![w] = "failed"]
                   /\ err' = [err EXCEPT ![w] = r.err]
                   /\ UNCHANGED <<loc, G_loc, occik>>
              ELSE /\ err' = err
                   /\ pc' = [pc EXCEPT ![w] =
                                IF arg.op \in {"spectral_contours", "spaghettis"}
                                THEN "gen_Akw_init"
                                ELSE IF arg.op = "print_hamiltonian" THEN "finish"
                                ELSE AfterSetup(w)]
                   /\ loc' = [loc EXCEPT ![w] =
                                CASE arg.op = "density_of_states" ->
                                        density_of_states_shells(arg, self)
                                  [] arg.op = "partial_charges" ->
                                        [n_shells |-> self.n_shells,
                                         shell_list |-> Range(self.n_shells),
                                         shells_type |-> "all"]
                                  [] OTHER -> @]
                   /\ G_loc' = [G_loc EXCEPT ![w] =
                                CASE arg.op = "density_of_states" /\ arg.proj_type # None ->
                                        Zeros(density_of_states_shells(arg, self).n_shells)
                                  [] arg.op = "partial_charges" -> Zeros(self.n_shells)
                                  [] OTHER -> @]
                   /\ occik' = [occik EXCEPT ![w] =
                                IF arg.op = "occupations" THEN Zeros(self.n_k) ELSE @]
           /\ self_occik' = IF reads_occik(arg, r.reads, archive)
                            THEN [self_occik EXCEPT ![w] = ar_occik]
                            ELSE self_occik
    /\ self' = read_k_data(arg, self, pre(arg, self, archive).reads, archive)
    /\ UNCHANGED <<caller, ar_occik, arg, archive, size, waiting, kpos, DOS, Akw, pAkw_orb, coll,
                   sendbuf, writes>>

\* gen_Akw up to its k-loop: output arrays, shell list, G_loc
gen_Akw_init(w) ==
    /\ pc[w] = "gen_Akw_init"
    /\ LET g == gen_Akw_setup(gen_Akw_args(arg), self)
       IN  IF g.err.type # "none"
           THEN /\ pc' = [pc EXCEPT ![w] = "failed"]
                /\ err' = [err EXCEPT ![w] = g.err]
                /\ UNCHANGED <<loc, G_loc, Akw, pAkw_orb>>
           ELSE /\ err' = err
                /\ pc' = [pc EXCEPT ![w] = AfterSetup(w)]
                /\ loc' = [loc EXCEPT ![w] = [n_shells |-> g.n_shells,
                                              shell_list |-> g.shell_list,
                                              shells_type |-> g.shells_type]]
                /\ Akw' = [Akw EXCEPT ![w] = Zeros(self.n_k)]
                /\ pAkw_orb' = [pAkw_orb EXCEPT ![w] =
                                  IF g.n_shells >= 0
                                  THEN [ish \in 0..(g.n_shells - 1) |-> Zeros(self.n_k)]
                                  ELSE @]
                /\ G_loc' = [G_loc EXCEPT ![w] =
                                  IF g.n_shells >= 0 THEN Zeros(g.n_shells) ELSE @]
    /\ UNCHANGED <<caller, ar_occik, self_occik, arg, self, archive, size, waiting, kpos, DOS, occik, calls, coll,
                   sendbuf, writes>>

\* ------------------------------------------------------------- the k-loops
\* a projection step that adds the projected function twice
density_of_states_project_twice(G, G_latt_w, ik, ish, proj_type, blocks, n_parproj) ==
    LET tmp == zero
        G_proj == proj_type_G_loc(G_latt_w, tmp, ik, ish, proj_type, blocks, n_parproj)
    IN  G (+) G_proj (+) G_proj

\* tmp = G_loc[ish].copy(); tmp.zero()
\* tmp << self.proj_type_G_loc(G_latt_w, tmp, ik, ish, proj_type); G_loc[ish] += tmp
density_of_states_project(G, G_latt_w, ik, ish, proj_type, blocks, n_parproj) ==
    LET tmp == template(G)
    IN  G (+) proj_type_G_loc(G_latt_w, tmp, ik, ish, proj_type, blocks, n_parproj)

\* G_loc[ish].zero(); tmp = G_loc[ish].copy(); tmp.zero()
\* tmp << self.proj_type_G_loc(G_latt_w, tmp, ik, ish, proj_type); G_loc[ish] += tmp
gen_Akw_project(G, G_latt_w, ik, ish, proj_type, blocks, n_parproj) ==
    LET tmp == template(zero)
    IN  zero (+) proj_type_G_loc(G_latt_w, tmp, ik, ish, proj_type, blocks, n_parproj)

\* for bname, gf in G: row[bname] = gf
RECURSIVE assign_blocks(_, _, _, _)
assign_blocks(row, G, blocks, i) ==
    IF i > Len(blocks) THEN row
    ELSE assign_blocks(SetBlock(row, blocks[i], Block(G, blocks[i])), G, blocks, i + 1)

\* the entries of the log for the proj_type_G_loc calls of one k-index, one
\* for each of the n shells in turn: the shell, the arguments handed over and
\* the call as the caller sees it.  G[ish] is what the template is copied from
proj_type_G_loc_calls(G, G_latt_w, ik, n, proj_type) ==
    [i \in 1..n |->
        <<"proj_type_G_loc", i - 1,
          [G_latt |-> G_latt_w, G_inp |-> template(G[i - 1])],
          proj_type_G_loc_effect(G_latt_w, template(G[i - 1]), ik, i - 1, proj_type,
                                 spn, self.n_parproj)>>]

\* a lattice Green's function that is weighted and never masked
density_of_states_G_latt_unmasked(ik, dosocc, blocks) == Weighted(lattice_gf(ik, blocks))

\* G_latt_w = self.lattice_gf(ik, ...); G_latt_w *= self.bz_weights[ik]
\* if dosocc: G_latt_w[bname].data *= self.occik[bname][ik]
density_of_states_G_latt(ik, dosocc, blocks) ==
    LET G_bz == Weighted(lattice_gf(ik, blocks))
    IN  IF dosocc THEN Masked(G_bz) ELSE G_bz

\* the phase after one more k-index of rank w
AfterK(w) == IF kpos[w] + 1 = Len(ks(w)) THEN Succ(arg.op, "kloop") ELSE "kloop"

\* self.lattice_gf(ik, ...) raises at the next k-index of rank w
lattice_gf_fails(w) == ks(w)[kpos[w] + 1] = self.fault_k

\* a density_of_states that hands the default broadening to lattice_gf
density_of_states_lattice_gf_default_broadening(a, slf) ==
    [mu |-> a.mu, broadening |-> "0.001",
     mesh |-> IF a.with_Sigma THEN "self.Sigma_imp[0].mesh"
              ELSE IF a.mesh # "None" THEN "mesh" ELSE "self.mesh",
     with_Sigma |-> a.with_Sigma, with_dc |-> a.with_dc]

\* the keyword arguments of self.lattice_gf(ik=ik, mu=mu, broadening=broadening,
\* mesh=mesh, with_Sigma=with_Sigma, with_dc=with_dc) in density_of_states,
\* after the mesh selection: mesh is the object it was assigned from, and
\* broadening becomes 0.001 when it is None and there is no self-energy
density_of_states_lattice_gf_args(a, slf) ==
    [mu |-> a.mu,
     broadening |-> IF ~a.with_Sigma /\ a.broadening = "None" THEN "0.001"
                    ELSE a.broadening,
     mesh |-> IF a.with_Sigma THEN "self.Sigma_imp[0].mesh"
              ELSE IF a.mesh # "None" THEN "mesh" ELSE "self.mesh",
     with_Sigma |-> a.with_Sigma, with_dc |-> a.with_dc]

\* the entry of the log for the lattice_gf call at k-index ik
lattice_gf_call(ik) ==
    IF arg.op = "density_of_states"
    THEN <<"lattice_gf", ik, density_of_states_lattice_gf_args(arg, self)>>
    ELSE <<"lattice_gf", ik>>

\* self.bz_weights[ik] at the next k-index of rank w is out of range
bz_weights_fails(w) ==
    /\ arg.op \in {"density_of_states", "partial_charges"}
    /\ ks(w)[kpos[w] + 1] >= self.bz_n_k

\* G_latt_w *= self.bz_weights[ik] raises an IndexError after lattice_gf returned
bz_weights_raises(w) ==
    /\ pc[w] = "kloop" /\ ~lattice_gf_fails(w) /\ bz_weights_fails(w)
    /\ calls' = [calls EXCEPT ![w] = Append(@, lattice_gf_call(ks(w)[kpos[w] + 1]))]
    /\ pc' = [pc EXCEPT ![w] = "failed"]
    /\ err' = [err EXCEPT ![w] = Err("IndexError", "bz_weights")]
    /\ UNCHANGED <<caller, ar_occik, self_occik, arg, self, archive, size, waiting, kpos, loc,
                   DOS, G_loc, occik, Akw, pAkw_orb, coll, sendbuf, writes>>

\* the k-loop of any operation, when lattice_gf raises: the exception is not
\* caught and ends the call on this rank
lattice_gf_raises(w) ==
    /\ pc[w] = "kloop" /\ lattice_gf_fails(w)
    /\ calls' = [calls EXCEPT ![w] = Append(@, lattice_gf_call(ks(w)[kpos[w] + 1]))]
    /\ pc' = [pc EXCEPT ![w] = "failed"]
    /\ err' = [err EXCEPT ![w] = Err("RuntimeError", "lattice_gf")]
    /\ UNCHANGED <<caller, ar_occik, self_occik, arg, self, archive, size, waiting, kpos, loc, DOS, G_loc, occik, Akw,
                   pAkw_orb, coll, sendbuf, writes>>

\* density_of_states, one k-index of rank w
density_of_states_k(w) ==
    /\ pc[w] = "kloop" /\ ~lattice_gf_fails(w) /\ ~bz_weights_fails(w)
    /\ arg.op = "density_of_states"
    /\ LET ik == ks(w)[kpos[w] + 1]
           G_latt_w == density_of_states_G_latt(ik, arg.dosocc, spn)
       IN  /\ calls' = [calls EXCEPT ![w] =
                          Append(@, lattice_gf_call(ik))
                          \o (IF arg.proj_type # None
                              THEN proj_type_G_loc_calls(G_loc[w], G_latt_w, ik,
                                                         loc[w].n_shells, arg.proj_type)
                              ELSE << >>)]
           /\ DOS' = [DOS EXCEPT ![w] = @ (+) G_latt_w]
           /\ G_loc' = IF arg.proj_type # None
                       THEN [G_loc EXCEPT ![w] =
                               [ish \in 0..(loc[w].n_shells - 1) |->
                                   density_of_states_project(@[ish], G_latt_w, ik, ish,
                                       arg.proj_type, spn, self.n_parproj)]]
                       ELSE G_loc
    /\ kpos' = [kpos EXCEPT ![w] = @ + 1]
    /\ pc' = [pc EXCEPT ![w] = AfterK(w)]
    /\ UNCHANGED <<caller, ar_occik, self_occik, arg, self, archive, size, waiting, loc, occik, Akw, pAkw_orb, err,
                   coll, sendbuf, writes>>

\* occupations, one k-index of rank w
occupations_k(w) ==
    /\ pc[w] = "kloop" /\ ~lattice_gf_fails(w)
    /\ arg.op = "occupations"
    /\ LET ik == ks(w)[kpos[w] + 1]
           G_latt == lattice_gf(ik, spn)
       IN  /\ calls' = [calls EXCEPT ![w] = Append(@, <<"lattice_gf", ik>>)]
           /\ occik' = [occik EXCEPT ![w][ik] = assign_blocks(@, G_latt, spn, 1)]
    /\ kpos' = [kpos EXCEPT ![w] = @ + 1]
    /\ pc' = [pc EXCEPT ![w] = AfterK(w)]
    /\ UNCHANGED <<caller, ar_occik, self_occik, arg, self, archive, size, waiting, loc, DOS, G_loc, Akw, pAkw_orb,
                   err, coll, sendbuf, writes>>

\* partial_charges, one k-index of rank w
partial_charges_k(w) ==
    /\ pc[w] = "kloop" /\ ~lattice_gf_fails(w) /\ ~bz_weights_fails(w)
    /\ arg.op = "partial_charges"
    /\ LET ik == ks(w)[kpos[w] + 1]
           G_latt_iw == Weighted(lattice_gf(ik, spn))
       IN  /\ calls' = [calls EXCEPT ![w] = Append(@, <<"lattice_gf", ik>>)]
           /\ G_loc' = [G_loc EXCEPT ![w] =
                           [ish \in 0..(self.n_shells - 1) |->
                               partial_charges_shell(@[ish], G_latt_iw, ik, ish,
                                                     self.n_parproj[ish], spn)]]
    /\ kpos' = [kpos EXCEPT ![w] = @ + 1]
    /\ pc' = [pc EXCEPT ![w] = AfterK(w)]
    /\ UNCHANGED <<caller, ar_occik, self_occik, arg, self, archive, size, waiting, loc, DOS, occik, Akw, pAkw_orb,
                   err, coll, sendbuf, writes>>

\* gen_Akw, one k-index of rank w.  The k-resolved functions are not summed
\* over k: G_loc is zeroed, projected and rotated for every k-index.
gen_Akw_k(w) ==
    /\ pc[w] = "kloop" /\ ~lattice_gf_fails(w)
    /\ arg.op \in {"spectral_contours", "spaghettis"}
    /\ LET a == gen_Akw_args(arg)
           ik == ks(w)[kpos[w] + 1]
           n == loc[w].n_shells
           sl == loc[w].shell_list
           st == loc[w].shells_type
           G_latt_w == lattice_gf(ik, spn)
           proj == [ish \in 0..(n - 1) |->
                       gen_Akw_project(G_loc[w][ish], G_latt_w, ik, ish, a.proj_type,
                                       spn, self.n_parproj)]
           pcalls == proj_type_G_loc_calls([ish \in 0..(n - 1) |-> zero], G_latt_w, ik, n,
                                           a.proj_type)
           rot_fails == \E ish \in 0..(n - 1) : sl[ish + 1] >= n_rot(self, st)
           rotated == [ish \in 0..(n - 1) |-> rotloc_blocks(proj[ish], sl[ish + 1], st, spn, 1)]
           G_new == IF self.use_rotations THEN rotated ELSE proj
       IN  /\ Akw' = [Akw EXCEPT ![w][ik] =
                         gen_Akw_total(@, G_latt_w, ik, a.plot_shift, spn, 1)]
           /\ IF a.proj_type = None
              THEN /\ calls' = [calls EXCEPT ![w] = Append(@, <<"lattice_gf", ik>>)]
                   /\ pc' = [pc EXCEPT ![w] = AfterK(w)]
                   /\ UNCHANGED <<G_loc, pAkw_orb, err>>
              ELSE IF n < 0
              THEN /\ calls' = [calls EXCEPT ![w] = Append(@, <<"lattice_gf", ik>>)]
                   /\ pc' = [pc EXCEPT ![w] = "failed"]
                   /\ err' = [err EXCEPT ![w] = Err("NameError", "n_shells")]
                   /\ UNCHANGED <<G_loc, pAkw_orb>>
              ELSE IF self.use_rotations /\ rot_fails
              THEN /\ calls' = [calls EXCEPT ![w] =
                                  Append(@, <<"lattice_gf", ik>>) \o pcalls]
                   /\ pc' = [pc EXCEPT ![w] = "failed"]
                   /\ err' = [err EXCEPT ![w] = Err("IndexError", "rot_mat")]
                   /\ G_loc' = [G_loc EXCEPT ![w] = proj]
                   /\ UNCHANGED pAkw_orb
              ELSE /\ calls' = [calls EXCEPT ![w] =
                                  Append(@, <<"lattice_gf", ik>>) \o pcalls
                                  \o (IF self.use_rotations
                                      THEN [i \in 1..n |-> <<"rotloc", sl[i]>>]
                                      ELSE << >>)]
                   /\ pc' = [pc EXCEPT ![w] = AfterK(w)]
                   /\ G_loc' = [G_loc EXCEPT ![w] = G_new]
                   /\ pAkw_orb' = [pAkw_orb EXCEPT ![w] =
                                     [ish \in 0..(n - 1) |->
                                        [@[ish] EXCEPT ![ik] =
                                           gen_Akw_projected(@, G_new[ish], ik,
                                                             a.plot_shift, spn, 1)]]]
                   /\ err' = err
    /\ kpos' = [kpos EXCEPT ![w] = @ + 1]
    /\ UNCHANGED <<caller, ar_occik, self_occik, arg, self, archive, size, waiting, loc, DOS, occik, coll, sendbuf,
                   writes>>

\* ---------------------------------------------------------- the collectives
\* mpi.all_reduce(x): the element-wise sum of the contributions of all ranks
all_reduce(x) == BagSum(DOMAIN x, x)

\* mpi.barrier(): rank w arrives
mpi_barrier(w) ==
    /\ pc[w] \in {"barrier", "barrier_end"}
    /\ ~waiting[w]
    /\ waiting' = [waiting EXCEPT ![w] = TRUE]
    /\ coll' = [coll EXCEPT ![w] = @ + 1]
    /\ calls' = [calls EXCEPT ![w] = Append(@, <<"barrier">>)]
    /\ UNCHANGED <<caller, ar_occik, self_occik, arg, self, archive, size, pc, kpos, loc, DOS, G_loc, occik, Akw,
                   pAkw_orb, err, sendbuf, writes>>

\* the mpi.all_reduce calls of the operation: rank w contributes its partial sums
mpi_all_reduce(w) ==
    /\ pc[w] = "all_reduce"
    /\ ~waiting[w]
    /\ waiting' = [waiting EXCEPT ![w] = TRUE]
    /\ coll' = [coll EXCEPT ![w] = @ + 1]
    /\ sendbuf' = [sendbuf EXCEPT ![w] =
                      [DOS |-> DOS[w], G_loc |-> G_loc[w], occik |-> occik[w],
                       Akw |-> Akw[w], pAkw_orb |-> pAkw_orb[w]]]
    /\ calls' = [calls EXCEPT ![w] = Append(@, <<"all_reduce">>)]
    /\ UNCHANGED <<caller, ar_occik, self_occik, arg, self, archive, size, pc, kpos, loc, DOS, G_loc, occik, Akw,
                   pAkw_orb, err, writes>>

\* a DOS that is the partial sum of the master rank
Unreduced_DOS == sendbuf[0].DOS

\* the reduced value of each accumulator, as rank w receives it
Reduced_DOS == all_reduce([v \in Ranks |-> sendbuf[v].DOS])

Reduced_G_loc(w) ==
    [ish \in DOMAIN G_loc[w] |-> all_reduce([v \in Ranks |-> sendbuf[v].G_loc[ish]])]

Reduced_occik(w) ==
    [ik \in DOMAIN occik[w] |-> all_reduce([v \in Ranks |-> sendbuf[v].occik[ik]])]

Reduced_Akw(w) ==
    [ik \in DOMAIN Akw[w] |-> all_reduce([v \in Ranks |-> sendbuf[v].Akw[ik]])]

Reduced_pAkw_orb(w) ==
    [ish \in DOMAIN pAkw_orb[w] |->
        [ik \in DOMAIN pAkw_orb[w][ish] |->
            all_reduce([v \in Ranks |-> sendbuf[v].pAkw_orb[ish][ik]])]]

\* a collective completes on rank w once every rank has entered it
mpi_complete(w) ==
    /\ waiting[w]
    /\ \A v \in Ranks : coll[v] >= coll[w]
    /\ waiting' = [waiting EXCEPT ![w] = FALSE]
    /\ pc' = [pc EXCEPT ![w] = Succ(arg.op, pc[w])]
    /\ calls' = [calls EXCEPT ![w] = Append(@, <<"done", pc[w]>>)]
    /\ IF pc[w] = "all_reduce"
       THEN /\ DOS' = [DOS EXCEPT ![w] =
                          IF arg.op = "density_of_states" THEN Reduced_DOS ELSE @]
            /\ G_loc' = [G_loc EXCEPT ![w] =
                          IF \/ arg.op = "density_of_states" /\ arg.proj_type # None
                             \/ arg.op = "partial_charges"
                          THEN Reduced_G_loc(w) ELSE @]
            /\ occik' = [occik EXCEPT ![w] =
                          IF arg.op = "occupations" THEN Reduced_occik(w) ELSE @]
            /\ Akw' = [Akw EXCEPT ![w] =
                          IF arg.op \in {"spectral_contours", "spaghettis"}
                          THEN Reduced_Akw(w) ELSE @]
            /\ pAkw_orb' = [pAkw_orb EXCEPT ![w] =
                          IF arg.op \in {"spectral_contours", "spaghettis"}
                             /\ Truthy(arg.proj_type)
                          THEN Reduced_pAkw_orb(w) ELSE @]
       ELSE UNCHANGED <<DOS, G_loc, occik, Akw, pAkw_orb>>
    /\ UNCHANGED <<caller, ar_occik, self_occik, arg, self, archive, size, kpos, loc, err, coll, sendbuf, writes>>

\* ---------------------------------------------------------- the corrections
\* a density_of_states that corrects G_loc with and without a scheme
corrects_without_scheme(a) ==
    \/ a.op = "partial_charges"
    \/ a.op = "density_of_states" /\ a.proj_type \notin {vasp, elk}

\* density_of_states corrects G_loc for every scheme but 'vasp' (and 'elk')
corrects(a) ==
    \/ a.op = "partial_charges"
    \/ a.op = "density_of_states" /\ a.proj_type # None /\ a.proj_type \notin {vasp, elk}

\* if self.symm_op != 0: G_loc = self.symmcorr.symmetrize(G_loc)   (or symmpar)
symmetrize_step(w) ==
    /\ pc[w] = "symmetrize"
    /\ pc' = [pc EXCEPT ![w] = Succ(arg.op, "symmetrize")]
    /\ IF corrects(arg) /\ self.symm_op # 0
       THEN /\ G_loc' = [G_loc EXCEPT ![w] = symmetrize(@)]
            /\ calls' = [calls EXCEPT ![w] = Append(@, <<"symmetrize">>)]
       ELSE UNCHANGED <<G_loc, calls>>
    /\ UNCHANGED <<caller, ar_occik, self_occik, arg, self, archive, size, waiting, kpos, loc, DOS, occik, Akw,
                   pAkw_orb, err, coll, sendbuf, writes>>

\* if self.use_rotations: for ish: for bname, gf in G_loc[ish]:
\*     G_loc[ish][bname] << self.rotloc(ish, gf, direction='toLocal', shells=shells_type)
rotate_step(w) ==
    /\ pc[w] = "rotate"
    /\ pc' = [pc EXCEPT ![w] = Succ(arg.op, "rotate")]
    /\ IF corrects(arg) /\ self.use_rotations
       THEN /\ G_loc' = [G_loc EXCEPT ![w] =
                           [ish \in DOMAIN @ |->
                               rotloc_blocks(@[ish], ish, loc[w].shells_type, spn, 1)]]
            /\ calls' = [calls EXCEPT ![w] =
                           @ \o [i \in 1..loc[w].n_shells |-> <<"rotloc", i - 1>>]]
       ELSE UNCHANGED <<G_loc, calls>>
    /\ UNCHANGED <<caller, ar_occik, self_occik, arg, self, archive, size, waiting, kpos, loc, DOS, occik, Akw,
                   pAkw_orb, err, coll, sendbuf, writes>>

\* ------------------------------------------------------ the end of a call
\* the files (and the archive entry) the call writes
Outputs(a, n_shells, shell_list, blocks) ==
    CASE a.op = "density_of_states" ->
            IF a.save_to_file
            THEN {<<"DOS", None, blocks[i], -1>> : i \in DOMAIN blocks}
                 \cup (IF a.proj_type # None
                       THEN {<<"DOS", a.proj_type, blocks[i], ish>> :
                                i \in DOMAIN blocks, ish \in 0..(n_shells - 1)}
                       ELSE {})
            ELSE {}
      [] a.op = "spaghettis" ->
            IF a.save_to_file
            THEN {<<"Akw", None, blocks[i], -1>> : i \in DOMAIN blocks}
                 \cup (IF a.proj_type # None
                       THEN {<<"Akw", a.proj_type, blocks[i], shell_list[j]>> :
                                i \in DOMAIN blocks, j \in 1..n_shells}
                       ELSE {})
            ELSE {}
      [] a.op = "spectral_contours" ->
            IF a.save_to_file
            THEN {<<"Akw_FS", None, blocks[i], -1>> : i \in DOMAIN blocks}
                 \cup (IF a.proj_type # None
                       THEN {<<"Akw_FS", a.proj_type, blocks[i], ish>> :
                                i \in DOMAIN blocks, ish \in 0..(n_shells - 1)}
                       ELSE {})
            ELSE {}
      [] a.op = "occupations" ->
            IF a.save_occ THEN {<<"misc_data", "occik">>} ELSE {}
      [] OTHER -> {}

\* print_hamiltonian: hamup.dat and hamdn.dat, or ham.dat
print_hamiltonian_files(slf) ==
    IF slf.SP = 1 /\ slf.SO = 0
    THEN {<<"ham", None, "up", -1>>, <<"ham", None, "dn", -1>>}
    ELSE {<<"ham", None, "", -1>>}

\* the ranks that reach the statements that open files: the master rank
\* under `if ... and mpi.is_master_node()`; every rank in print_hamiltonian,
\* which has no such test
opens_files(a, rank) == a.op = "print_hamiltonian" \/ is_master_node(rank)

\* if save_occ and mpi.is_master_node(): ar[self.misc_data]['occik'] = occik
saves_occik(a, rank) == a.op = "occupations" /\ a.save_occ /\ is_master_node(rank)

\* the observables are extracted, the files are written, the call returns
finish(w) ==
    /\ pc[w] = "finish"
    /\ pc' = [pc EXCEPT ![w] = "done"]
    /\ IF opens_files(arg, w)
       THEN LET out == IF arg.op = "print_hamiltonian"
                       THEN print_hamiltonian_files(self)
                       ELSE Outputs(arg, loc[w].n_shells, loc[w].shell_list, spn)
            IN  /\ writes' = writes \cup {[rank |-> w, name |-> f] : f \in out}
                /\ archive' = IF saves_occik(arg, w)
                              THEN archive \cup {<<"misc_data", "occik">>}
                              ELSE archive
       ELSE UNCHANGED <<writes, archive>>
    /\ ar_occik' = IF saves_occik(arg, w)
                   THEN [by |-> "occupations", value |-> occik[w]]
                   ELSE ar_occik
    /\ UNCHANGED <<caller, self_occik, arg, self, size, waiting, kpos, loc, DOS, G_loc, occik, Akw,
                   pAkw_orb, err, calls, coll, sendbuf>>

\* the caller's next statement, once the operation has returned on every
\* rank: density_of_states on the same object and archive, with dosocc=True
\* after occupations
next_call ==
    /\ caller # << >>
    /\ \A w \in Ranks : pc[w] = "done"
    /\ arg' = [arg EXCEPT !.op = Head(caller), !.dosocc = (arg.op = "occupations"),
                          !.with_Sigma = FALSE, !.mesh = "MeshReFreq"]
    /\ caller' = Tail(caller)
    /\ pc' = [w \in Ranks |-> "init"]
    /\ waiting' = [w \in Ranks |-> FALSE]
    /\ kpos' = [w \in Ranks |-> 0]
    /\ calls' = [w \in Ranks |-> << >>]
    /\ coll' = [w \in Ranks |-> 0]
    /\ sendbuf' = [w \in Ranks |-> EmptyBuf]
    /\ DOS' = [w \in Ranks |-> zero]
    /\ G_loc' = [w \in Ranks |-> << >>]
    /\ Akw' = [w \in Ranks |-> << >>]
    /\ pAkw_orb' = [w \in Ranks |-> << >>]
    /\ loc' = [w \in Ranks |-> [n_shells |-> -1, shell_list |-> << >>, shells_type |-> "unbound"]]
    /\ writes' = {}
    /\ UNCHANGED <<self, archive, size, occik, err, ar_occik, self_occik>>

\* ------------------------------------------------------- the specification
Next ==
    \/ \E w \in Ranks : call(w)
    \/ \E w \in Ranks : gen_Akw_init(w)
    \/ \E w \in Ranks : density_of_states_k(w)
    \/ \E w \in Ranks : occupations_k(w)
    \/ \E w \in Ranks : partial_charges_k(w)
    \/ \E w \in Ranks : gen_Akw_k(w)
    \/ \E w \in Ranks : lattice_gf_raises(w)
    \/ \E w \in Ranks : bz_weights_raises(w)
    \/ \E w \in Ranks : mpi_barrier(w)
    \/ \E w \in Ranks : mpi_all_reduce(w)
    \/ \E w \in Ranks : mpi_complete(w)
    \/ \E w \in Ranks : symmetrize_step(w)
    \/ \E w \in Ranks : rotate_step(w)
    \/ \E w \in Ranks : finish(w)
    \/ next_call

Spec == Init /\ [][Next]_vars

\* every rank that can take a step eventually takes one: a rank stops only
\* when its call has returned or raised, or inside a collective
FairSpec == Spec /\ WF_vars(Next)

\* =================================================================== claims
\* the calls of rank w to the collaborator `name`, as positions of its log
CallsTo(w, name) == {i \in DOMAIN calls[w] : calls[w][i][1] = name}

\* the positions of the log of rank w at which the collective `name` returned
Returned(w, name) ==
    {i \in DOMAIN calls[w] : calls[w][i][1] = "done" /\ calls[w][i][2] = name}

\* rank w has received the result of the all_reduce
Reduced(w) == Returned(w, "all_reduce") # {}

\* what density_of_states returns on one rank: the sum over k = 0..n-1
RECURSIVE Serial_DOS(_)
Serial_DOS(n) ==
    IF n = 0 THEN zero
    ELSE Serial_DOS(n - 1) (+) density_of_states_G_latt(n - 1, arg.dosocc, spn)

RECURSIVE Serial_G_loc(_, _)
Serial_G_loc(ish, n) ==
    IF n = 0 THEN zero
    ELSE density_of_states_project(
             Serial_G_loc(ish, n - 1),
             density_of_states_G_latt(n - 1, arg.dosocc, spn),
             n - 1, ish, arg.proj_type, spn, self.n_parproj)

\* every k-index 0..n_k-1 and block has exactly one term in B, and B has no other
OnceEach(B) ==
    /\ \A t \in DOMAIN B : B[t] = 1 /\ t.k \in 0..(self.n_k - 1)
    /\ \A ik \in 0..(self.n_k - 1) : \A i \in DOMAIN spn :
          Cardinality({t \in DOMAIN B : t.k = ik /\ t.b = spn[i]}) = 1

\* C1: in density_of_states, once the all_reduce has returned on a rank, its
\* DOS and its reduced G_loc[ish] hold every k-point 0..n_k-1 exactly once:
\* they are the values one rank alone computes, the same on every rank.
C1_PartitionInvariance ==
    \A w \in Ranks :
        (arg.op = "density_of_states" /\ Reduced(w)) =>
            /\ OnceEach(DOS[w])
            /\ DOS[w] = Serial_DOS(self.n_k)
            /\ pc[w] = "symmetrize" =>
                  \A ish \in DOMAIN G_loc[w] : G_loc[w][ish] = Serial_G_loc(ish, self.n_k)

C1_Witness ==
    \E w \in Ranks :
        /\ arg.op = "density_of_states" /\ arg.proj_type = wien2k
        /\ size >= 2 /\ self.n_k >= 2
        /\ pc[w] = "symmetrize"
        /\ \E ish \in DOMAIN G_loc[w] : G_loc[w][ish] # zero
        /\ \A v \in Ranks : CallsTo(v, "lattice_gf") # {}

\* C2: in occupations, after the all_reduce, occik[ik] of every rank holds the
\* density matrix of k-point ik exactly once, whatever the number of ranks.
C2_OccupationsOnce ==
    \A w \in Ranks :
        (arg.op = "occupations" /\ Reduced(w)) =>
            \A ik \in 0..(self.n_k - 1) : occik[w][ik] = lattice_gf(ik, spn)

\* the k-indices rank w has processed so far
Processed(w) == {ks(w)[i] : i \in 1..kpos[w]}

\* one term for every k-point of Ks, block and partial projector ir in
\* 0..n_parproj[ish]-1 of shell ish
PartialTerms(ish, Ks, weighted, masked) ==
    {[k |-> ik, b |-> spn[i], bz |-> weighted, occ |-> masked, pk |-> ik, sh |-> ish,
      st |-> "all", ir |-> ir, ops |-> << >>] :
        ik \in Ks, i \in DOMAIN spn, ir \in 0..(self.n_parproj[ish] - 1)}

\* G without the record of the corrections applied to it
Uncorrected(G) == BagMap(G, LAMBDA t : [t EXCEPT !.ops = << >>])

\* C3: with the 'wien2k' scheme, what a k-point adds to the running G_loc[ish]
\* is the downfold of every partial projector ir in 0..n_parproj[ish]-1, each
\* exactly once: in density_of_states and partial_charges the local sum holds
\* one term per processed k-point, block and ir; in gen_Akw G_loc[ish] holds
\* them for the k-point just processed.
C3_AllPartialProjectors ==
    \A w \in Ranks : \A ish \in DOMAIN G_loc[w] :
        /\ (arg.op = "density_of_states" /\ arg.proj_type = wien2k
               /\ pc[w] \in {"kloop", "barrier", "all_reduce"}) =>
              G_loc[w][ish] = SetToBag(PartialTerms(ish, Processed(w), TRUE, arg.dosocc))
        /\ (arg.op = "partial_charges" /\ pc[w] \in {"kloop", "all_reduce"}) =>
              G_loc[w][ish] = SetToBag(PartialTerms(ish, Processed(w), TRUE, FALSE))
        /\ (arg.op = "spaghettis" /\ arg.proj_type = wien2k /\ kpos[w] >= 1
               /\ pc[w] # "failed") =>
              Uncorrected(G_loc[w][ish]) =
                  SetToBag(PartialTerms(ish, {ks(w)[kpos[w]]}, FALSE, FALSE))

C3_Witness ==
    \E w \in Ranks : \E ish \in DOMAIN G_loc[w] :
        /\ arg.op = "density_of_states" /\ arg.proj_type = wien2k
        /\ pc[w] = "all_reduce" /\ kpos[w] >= 1
        /\ self.n_parproj[ish] >= 2
        /\ \E t \in DOMAIN G_loc[w][ish] : t.ir = 1

\* i is a position of the log of rank w that follows a position of the set S
After(i, S) == \E j \in S : j < i

\* the corrections a finished density_of_states or partial_charges has applied
Corrections(ish, shells_type) ==
    (IF self.symm_op # 0 THEN << <<"sym">> >> ELSE << >>)
    \o (IF self.use_rotations THEN << <<"rot", ish, shells_type>> >> ELSE << >>)

\* C4: in density_of_states and partial_charges, on every rank, symmetrize is
\* called only after the all_reduce has returned, rotloc only after symmetrize
\* (when a symmetry operator is configured), never before it; the corrected
\* G_loc is the rotation of the symmetrized reduced G_loc.
C4_SymmetrizeThenRotate ==
    \A w \in Ranks :
        (arg.op \in {"density_of_states", "partial_charges"}) =>
            /\ \A i \in CallsTo(w, "symmetrize") : After(i, Returned(w, "all_reduce"))
            /\ \A i \in CallsTo(w, "rotloc") :
                  /\ After(i, Returned(w, "all_reduce"))
                  /\ (self.symm_op # 0 /\ corrects(arg)) => After(i, CallsTo(w, "symmetrize"))
                  /\ \A j \in CallsTo(w, "symmetrize") : j < i
            /\ (pc[w] \in {"finish", "done"} /\ corrects(arg)) =>
                  \A ish \in DOMAIN G_loc[w] : \A t \in DOMAIN G_loc[w][ish] :
                      t.ops = Corrections(ish, loc[w].shells_type)

C4_Witness ==
    \E w \in Ranks :
        /\ arg.op = "density_of_states" /\ corrects(arg)
        /\ self.symm_op # 0 /\ self.use_rotations
        /\ pc[w] = "done"
        /\ CallsTo(w, "symmetrize") # {} /\ CallsTo(w, "rotloc") # {}
        /\ \E ish \in DOMAIN G_loc[w] : G_loc[w][ish] # zero

\* the calls of rank w that correct a local Green's function
CorrectionCalls(w) == CallsTo(w, "symmetrize") \cup CallsTo(w, "rotloc")

\* no correction of rank w is applied twice to the same shell
CorrectedOnce(w) ==
    /\ Cardinality(CallsTo(w, "symmetrize")) <= 1
    /\ \A i, j \in CallsTo(w, "rotloc") : calls[w][i][2] = calls[w][j][2] => i = j

Validated(w) == pc[w] # "init"

\* the call ended on rank w with the assertion `what`, before any lattice_gf
FailedFast(w, what) ==
    /\ CallsTo(w, "lattice_gf") = {}
    /\ Validated(w) =>
          /\ pc[w] = "failed"
          /\ err[w].type = "AssertionError"
          /\ err[w].what \in what

\* the schemes an operation enumerates
Enumerated(op) ==
    IF op = "density_of_states" THEN {wann, vasp, wien2k} ELSE {wann, wien2k}

\* C6: density_of_states and spaghettis fail, before the first lattice_gf call
\* of any rank, when proj_type is not None and not an enumerated scheme of the
\* operation, and when it is 'vasp' or 'wien2k' and differs from self.dft_code;
\* 'wann' passes the scheme check for every self.dft_code.
C6_SchemeValidation ==
    \A w \in Ranks :
        (arg.op \in {"density_of_states", "spaghettis"} /\ arg.proj_type # None) =>
            /\ (arg.proj_type \notin Enumerated(arg.op)) =>
                  FailedFast(w, {"proj_type"}) /\ calls[w] = << >>
            /\ (arg.proj_type \in {vasp, wien2k} /\ arg.proj_type # self.dft_code) =>
                  FailedFast(w, {"proj_type", "dft_code"}) /\ calls[w] = << >>
            /\ (arg.proj_type = wann) => err[w].what \notin {"proj_type", "dft_code"}

C6_Witness ==
    \E w \in Ranks :
        /\ arg.op = "density_of_states"
        /\ arg.proj_type = wien2k /\ self.dft_code = vasp
        /\ pc[w] = "failed" /\ err[w].what = "dft_code"

\* C7: spectral_contours rejects every proj_type other than None and 'wann',
\* the empty string and the proper substrings of 'wann' included, by its
\* scheme check, before any archive read and any k-loop work.
C7_ContoursScheme ==
    \A w \in Ranks :
        (arg.op = "spectral_contours" /\ arg.proj_type \notin {None, wann}) =>
            FailedFast(w, {"proj_type"}) /\ calls[w] = << >>

\* C8: when an archive entry an operation requires is absent, the call fails
\* before any lattice_gf call with the missing-input error, which carries
\* exactly the names of the absent entries.
C8_MissingInputNamed ==
    \A w \in Ranks :
        (err[w].what = "missing input") =>
            /\ CallsTo(w, "lattice_gf") = {}
            /\ err[w].type = "ValueError"
            /\ err[w].args = err[w].values_not_read

\* the mesh a call uses: the self-energy mesh if with_Sigma, else the mesh
\* argument, else self.mesh ("None": no mesh at all)
MeshUsed ==
    IF arg.with_Sigma THEN self.Sigma_mesh
    ELSE IF arg.mesh # "None" THEN arg.mesh
    ELSE self.mesh

\* the mesh occupations uses: it takes no mesh argument
OccupationsMeshUsed == IF arg.with_Sigma THEN self.Sigma_mesh ELSE self.mesh

\* rank w made no lattice_gf call, and its call has failed if it is past validation
FailedBeforeSweep(w) ==
    /\ CallsTo(w, "lattice_gf") = {}
    /\ Validated(w) => pc[w] = "failed"

SchemeShells == IF arg.proj_type = wann THEN self.n_corr_shells ELSE self.n_shells

\* C10: in spaghettis, a shell_list with an index outside 0..n_shells-1 (the
\* index n_shells included) makes gen_Akw fail with the shell-index error
\* before the first lattice_gf call.
C10_ShellIndexRange ==
    \A w \in Ranks :
        (/\ arg.op = "spaghettis" /\ arg.proj_type \in {wann, wien2k}
         /\ arg.shell_list.given
         /\ \E i \in DOMAIN arg.shell_list.list :
               arg.shell_list.list[i] \notin 0..(SchemeShells - 1)) =>
            /\ CallsTo(w, "lattice_gf") = {}
            /\ pc[w] \notin {"init", "gen_Akw_init"} =>
                  pc[w] = "failed" /\ err[w].type = "IOError"

\* the terms of G that come from a Green's function (not a stacking offset)
Spectral(G) == {t \in DOMAIN G : t.st # "shift"}

\* C11: in spaghettis with a shell_list, the projected output at position i
\* (pAkw_orb[i], written under the name proj<shell_list[i]>) is the spectral
\* function of shell shell_list[i]: its projector is that of shell shell_list[i].
C11_ShellListPositions ==
    \A w \in Ranks :
        (/\ arg.op = "spaghettis" /\ arg.shell_list.given /\ pc[w] # "failed"
         /\ \A i \in DOMAIN arg.shell_list.list :
               arg.shell_list.list[i] \in 0..(SchemeShells - 1)) =>
            \A ish \in DOMAIN pAkw_orb[w] : \A ik \in DOMAIN pAkw_orb[w][ish] :
                \A t \in Spectral(pAkw_orb[w][ish][ik]) :
                    t.sh = loc[w].shell_list[ish + 1]

\* the call of rank w ended with an exception raised inside its k-loop
FailedMidSweep(w) == pc[w] = "failed" /\ CallsTo(w, "lattice_gf") # {}

\* C12: if lattice_gf or the projection raises on a rank during its k-loop in
\* density_of_states, gen_Akw or partial_charges, no rank completes the
\* all_reduce, no rank returns observables and no output file is written.
C12_NoResultAfterFailure ==
    (/\ arg.op \in {"density_of_states", "spaghettis", "spectral_contours", "partial_charges"}
     /\ \E v \in Ranks : FailedMidSweep(v)) =>
        /\ \A w \in Ranks :
              /\ Returned(w, "all_reduce") = {}
              /\ pc[w] \notin {"symmetrize", "rotate", "finish", "done"}
        /\ writes = {}

C12_Witness ==
    /\ arg.op = "density_of_states" /\ size >= 2
    /\ \E v \in Ranks : FailedMidSweep(v) /\ err[v].what = "lattice_gf"
    /\ \E w \in Ranks : pc[w] = "barrier" /\ waiting[w] /\ kpos[w] >= 1

\* C13: if a rank fails mid-sweep, every rank eventually ends its call with a
\* failure; no rank stays blocked in the barrier or the all_reduce.
C13_WholeRunFails ==
    (\E v \in Ranks : FailedMidSweep(v)) ~> (\A w \in Ranks : pc[w] = "failed")

\* the ranks that have written a file
Writers == {r.rank : r \in writes}

\* G holds each of its contributions for every k-index 0..n_k-1: it is a sum
\* over the whole k-range, not over the k-indices of one rank
WholeRange(G) ==
    \A t \in Spectral(G) : \A ik \in 0..(self.n_k - 1) :
        [t EXCEPT !.k = ik, !.pk = IF t.pk = -1 THEN -1 ELSE ik] \in DOMAIN G

\* row ik of the k-resolved A holds k-point ik in every block, and every
\* contribution one row holds is held by every row for its own k-point
WholeRows(A) ==
    \A ik \in 0..(self.n_k - 1) : \A t \in Spectral(A[ik]) : \A jk \in 0..(self.n_k - 1) :
        [t EXCEPT !.k = jk, !.pk = IF t.pk = -1 THEN -1 ELSE jk] \in DOMAIN A[jk]

\* C14: in density_of_states, spaghettis and spectral_contours a file is written
\* only by a rank on which the k-sweep, the barrier, the all_reduce and the
\* configured corrections have completed, and what it writes are the sums over
\* all ranks, not the partial sums of the rank.
C14_WriteAfterReduction ==
    \A w \in Writers :
        (arg.op \in {"density_of_states", "spaghettis", "spectral_contours"}) =>
            /\ pc[w] = "done" /\ kpos[w] = Len(ks(w))
            /\ Returned(w, "barrier") # {} /\ Returned(w, "all_reduce") # {}
            /\ (arg.op = "density_of_states") =>
                  /\ DOS[w] = Serial_DOS(self.n_k)
                  /\ \A ish \in DOMAIN G_loc[w] : WholeRange(G_loc[w][ish])
                  /\ (corrects(arg) /\ self.symm_op # 0) => CallsTo(w, "symmetrize") # {}
                  /\ (corrects(arg) /\ self.use_rotations) =>
                        Cardinality(CallsTo(w, "rotloc")) = loc[w].n_shells
            /\ (arg.op # "density_of_states") =>
                  /\ \A ik \in 0..(self.n_k - 1) : \A i \in DOMAIN spn :
                        Term(ik, spn[i]) \in DOMAIN Akw[w][ik]
                  /\ \A ish \in DOMAIN pAkw_orb[w] : WholeRows(pAkw_orb[w][ish])

C14_Witness ==
    \E w \in Writers :
        /\ arg.op = "density_of_states" /\ arg.proj_type = wann
        /\ size >= 2 /\ self.n_k >= 2
        /\ self.symm_op # 0 /\ self.use_rotations
        /\ \E r \in writes : r.rank = w /\ r.name[2] = wann

\* C15: on more than one rank, density_of_states, spaghettis, spectral_contours
\* and print_hamiltonian have their files written by the master rank only; no
\* file name is written by two ranks.
C15_MasterWrites ==
    (/\ size > 1
     /\ arg.op \in {"density_of_states", "spaghettis", "spectral_contours",
                    "print_hamiltonian"}) =>
        /\ \A w \in Writers : is_master_node(w)
        /\ \A r, q \in writes : r.name = q.name => r.rank = q.rank

\* the archive holds the group grp
HasGroup(grp) == \E e \in archive : e[1] = grp

\* the write of occupations: the entry misc_data/occik, by rank w
occik_write(w) == [rank |-> w, name |-> <<"misc_data", "occik">>]

\* C16: in occupations with save_occ=True only the master rank (rank 0) writes
\* to the archive, once, after its all_reduce has returned, and only the entry
\* misc_data/occik; after the write the group misc_data and the entry exist
\* and the entry holds the reduced occik of this call, whatever it held
\* before; the master that has returned has written.  With save_occ=False no
\* rank writes and the entry keeps what it held.
C16_MasterSavesOccik ==
    (arg.op = "occupations") =>
        /\ ~arg.save_occ => writes = {} /\ ar_occik.by # "occupations"
        /\ writes \subseteq {occik_write(0)}
        /\ writes # {} =>
              /\ arg.save_occ /\ Reduced(0) /\ pc[0] = "done"
              /\ HasGroup("misc_data") /\ <<"misc_data", "occik">> \in archive
              /\ ar_occik = [by |-> "occupations", value |-> Reduced_occik(0)]
        /\ writes = {} /\ <<"misc_data", "occik">> \in archive =>
              ar_occik.by = "earlier run"
        /\ (arg.save_occ /\ pc[0] = "done") => writes # {}

C16_Witness ==
    /\ arg.op = "occupations" /\ arg.save_occ /\ size >= 2 /\ self.n_k >= 2
    /\ \A w \in Ranks : pc[w] = "done"
    /\ writes = {occik_write(0)}
    /\ <<"misc_data", "band_window">> \in archive

\* C17: density_of_states with dosocc=True masks with the occik of the archive
\* entry misc_data/occik.  The entry exists exactly when a call persisted it.
\* When it does not exist the call raises on every rank before any lattice_gf
\* call.  When it exists, a rank that has called lattice_gf holds in self.occik
\* the content of the entry, every contribution to its DOS is masked, and
\* after occupations(save_occ=True) that content is the occik that call
\* returned on the master.
C17_MaskIsPersistedOccik ==
    (arg.op = "density_of_states" /\ arg.dosocc) =>
        /\ (<<"misc_data", "occik">> \in archive) <=> (ar_occik.by # "nobody")
        /\ ar_occik.by = "occupations" => ar_occik.value = occik[0]
        /\ \A w \in Ranks :
              /\ (<<"misc_data", "occik">> \notin archive) =>
                    /\ CallsTo(w, "lattice_gf") = {}
                    /\ pc[w] \in {"init", "failed"}
              /\ CallsTo(w, "lattice_gf") # {} =>
                    /\ self_occik[w] = ar_occik
                    /\ DOMAIN self_occik[w].value = 0..(self.n_k - 1)
                    /\ \A t \in DOMAIN DOS[w] : t.occ

C17_Witness ==
    /\ arg.op = "density_of_states" /\ arg.dosocc
    /\ ar_occik.by = "occupations"
    /\ size >= 2 /\ self.n_k >= 2
    /\ \A w \in Ranks : pc[w] = "done" /\ DOS[w] # zero

\* C18: in spaghettis with proj_type='wien2k' no rank calls rotloc, whatever
\* the value of use_rotations.
C18_Wien2kNotRotated ==
    (arg.op = "spaghettis" /\ arg.proj_type = wien2k) =>
        \A w \in Ranks : CallsTo(w, "rotloc") = {}

\* the ranks whose k-loop iterates ik
Owners(ik) == {v \in Ranks : \E i \in DOMAIN ks(v) : ks(v)[i] = ik}

\* every contribution to the row is of k-point ik: its lattice Green's
\* function, its projectors, its offset
OnlyOf(row, ik) == \A t \in DOMAIN row : t.k = ik /\ t.pk \in {-1, ik}

\* C19: in gen_Akw (spectral_contours, spaghettis) row ik of Akw and of every
\* pAkw_orb[ish] holds contributions of k-point ik only; before the all_reduce
\* a rank holds zero in the rows it does not own; every k-index has exactly
\* one owner, and after the all_reduce every rank holds in row ik what the
\* owner of ik computed, which for Akw is what a single rank computes.
C19_RowsNotReducedOverK ==
    (arg.op \in {"spectral_contours", "spaghettis"}) =>
        \A w \in Ranks :
            /\ \A ik \in DOMAIN Akw[w] :
                  /\ OnlyOf(Akw[w][ik], ik)
                  /\ Cardinality(Owners(ik)) = 1
                  /\ (~Reduced(w) /\ w \notin Owners(ik)) => Akw[w][ik] = zero
                  /\ Reduced(w) =>
                        /\ \A v \in Owners(ik) : Akw[w][ik] = sendbuf[v].Akw[ik]
                        /\ Akw[w][ik] = gen_Akw_total(zero, lattice_gf(ik, spn), ik,
                                                      gen_Akw_args(arg).plot_shift, spn, 1)
            /\ \A ish \in DOMAIN pAkw_orb[w] : \A ik \in DOMAIN pAkw_orb[w][ish] :
                  /\ OnlyOf(pAkw_orb[w][ish][ik], ik)
                  /\ (~Reduced(w) /\ w \notin Owners(ik)) => pAkw_orb[w][ish][ik] = zero
                  /\ Reduced(w) =>
                        \A v \in Owners(ik) :
                            pAkw_orb[w][ish][ik] = sendbuf[v].pAkw_orb[ish][ik]

C19_Witness ==
    /\ arg.op = "spaghettis" /\ arg.proj_type = wann
    /\ size >= 2 /\ self.n_k >= 2
    /\ \A w \in Ranks : pc[w] = "done" /\ Reduced(w)
    /\ \A ik \in 0..(self.n_k - 1) : pAkw_orb[0][0][ik] # zero

C21_ProjectedShiftOnce ==
    (/\ arg.op = "spaghettis" /\ arg.proj_type # None /\ arg.plot_shift # 0) =>
        \A w \in Ranks : \A ish \in DOMAIN pAkw_orb[w] : \A ik \in DOMAIN pAkw_orb[w][ish] :
            (pc[w] # "failed" /\ (ik \in Processed(w) \/ Reduced(w))) =>
                \A i \in DOMAIN spn :
                    CopiesIn(ShiftTerm(ik, spn[i]), pAkw_orb[w][ish][ik]) =
                        IF ik * arg.plot_shift # 0 THEN 1 ELSE 0

\* every collective of rank w is entered after its last lattice_gf call
SweepThenCollectives(w) ==
    \A i \in CallsTo(w, "barrier") \cup CallsTo(w, "all_reduce") :
        \A j \in CallsTo(w, "lattice_gf") : j < i

\* C22 (as stated): in every distributed operation a rank enters the
\* all_reduce only after it has passed a barrier that follows its k-loop.
C22_BarrierBeforeReduction ==
    \A w \in Ranks :
        /\ SweepThenCollectives(w)
        /\ \A i \in CallsTo(w, "all_reduce") : After(i, Returned(w, "barrier"))

\* C22 (amended): in every distributed operation the collectives follow the
\* k-loop of the rank.  In density_of_states and gen_Akw the all_reduce is
\* entered after the barrier has returned; in occupations and partial_charges
\* the all_reduce comes first and the barrier is entered after it has returned.
C22_CollectiveOrder ==
    \A w \in Ranks :
        /\ SweepThenCollectives(w)
        /\ (arg.op \in {"density_of_states", "spaghettis", "spectral_contours"}) =>
              \A i \in CallsTo(w, "all_reduce") : After(i, Returned(w, "barrier"))
        /\ (arg.op \in {"occupations", "partial_charges"}) =>
              \A i \in CallsTo(w, "barrier") :
                  /\ After(i, Returned(w, "all_reduce"))
                  /\ \A j \in CallsTo(w, "all_reduce") : j < i

C22_Witness ==
    /\ size >= 2 /\ self.n_k >= 2
    /\ arg.op = "density_of_states"
    /\ \A w \in Ranks : pc[w] = "done" /\ CallsTo(w, "lattice_gf") # {}
                          /\ Returned(w, "barrier") # {} /\ Reduced(w)

\* every contribution to G is weighted by bz_weights and is masked by occik
\* exactly when `masked`
WeightedAndMasked(G, masked) == \A t \in DOMAIN G : t.bz /\ (t.occ <=> masked)

\* C23: in density_of_states the Green's function of every k-point is weighted,
\* then masked when dosocc, before its trace goes into DOS and before it is
\* projected: with dosocc=True every contribution to DOS and to every G_loc is
\* weighted and masked, with dosocc=False every one is weighted and none is
\* masked; the projected contributions are those of the k-points whose trace
\* DOS holds.
C23_MaskBeforeTraceAndProjection ==
    (arg.op = "density_of_states") =>
        \A w \in Ranks :
            /\ WeightedAndMasked(DOS[w], arg.dosocc)
            /\ \A ish \in DOMAIN G_loc[w] :
                  /\ WeightedAndMasked(G_loc[w][ish], arg.dosocc)
                  /\ \A t \in DOMAIN G_loc[w][ish] :
                        \E u \in DOMAIN DOS[w] : u.k = t.k /\ u.b = t.b
            /\ (~Reduced(w) /\ pc[w] # "failed") =>
                  {t.k : t \in DOMAIN DOS[w]} = Processed(w)

C23_Witness ==
    /\ arg.op = "density_of_states" /\ arg.dosocc /\ arg.proj_type = wann
    /\ self.n_k >= 2
    /\ \A w \in Ranks : pc[w] = "done" /\ G_loc[w][0] # zero /\ DOS[w] # zero

\* the keyword arguments of the lattice_gf calls of rank w
LatticeGfArgs(w) == {calls[w][i][3] : i \in CallsTo(w, "lattice_gf")}

\* the mesh argument as the call received it
MeshReceived == IF arg.mesh = "None" THEN "None" ELSE "mesh"

IdentityProjected(G) ==
    BagMap(G, LAMBDA t : [t EXCEPT !.pk = -1, !.sh = -1, !.st = "latt", !.ir = -1])

\* one k-point, one shell, one projector for it, no symmetry operator and no
\* rotation
ScenarioA(w) ==
    /\ arg.op = "density_of_states" /\ arg.proj_type # None
    /\ self.n_k = 1 /\ loc[w].n_shells = 1
    /\ (arg.proj_type = wien2k) => self.n_parproj[0] = 1
    /\ self.symm_op = 0 /\ ~self.use_rotations

\* C25: in density_of_states with one k-point, one shell, an identity
\* projector and no correction, the G_loc[0] a rank returns, from which
\* DOSproj[0] is the trace, equals with the projector taken as the identity
\* the Green's function whose trace is DOS, in every spin block.
C25_ProjectedEqualsTotal ==
    \A w \in Ranks :
        (ScenarioA(w) /\ pc[w] = "done") =>
            /\ DOMAIN G_loc[w] = {0}
            /\ IdentityProjected(G_loc[w][0]) = DOS[w]
            /\ \A i \in DOMAIN spn :
                  IdentityProjected(Block(G_loc[w][0], spn[i])) = Block(DOS[w], spn[i])

C25_Witness ==
    /\ size >= 2 /\ Len(spn) >= 2 /\ arg.proj_type = wann
    /\ \A w \in Ranks : ScenarioA(w) /\ pc[w] = "done" /\ DOS[w] # zero

\* the proj_type_G_loc calls of rank w for shell position ish, as positions of
\* its log
ProjectionCalls(w, ish) == {i \in CallsTo(w, "proj_type_G_loc") : calls[w][i][2] = ish}

TotalDosFiles == {[rank |-> 0, name |-> <<"DOS", None, spn[i], -1>>] : i \in DOMAIN spn}

\* C27: density_of_states with proj_type=None makes no proj_type_G_loc call
\* and applies no correction on any rank; no G_loc exists, so that only DOS
\* is accumulated and handed to the all_reduce, and DOSproj and DOSproj_orb
\* are left without any per-spin entry; the reduced DOS is the sum over all
\* k-points; the only files written are DOS_<spin>.dat, all of them once the
\* master has returned.
C27_NoProjectionWithoutScheme ==
    (arg.op = "density_of_states" /\ arg.proj_type = None) =>
        /\ \A w \in Ranks :
              /\ CallsTo(w, "proj_type_G_loc") = {}
              /\ CallsTo(w, "symmetrize") = {} /\ CallsTo(w, "rotloc") = {}
              /\ G_loc[w] = << >> /\ sendbuf[w].G_loc = << >>
              /\ Reduced(w) => DOS[w] = Serial_DOS(self.n_k)
        /\ writes \subseteq TotalDosFiles
        /\ (pc[0] = "done" /\ arg.save_to_file) => writes = TotalDosFiles

C27_Witness ==
    /\ arg.op = "density_of_states" /\ arg.proj_type = None
    /\ size >= 2 /\ self.n_k >= 2
    /\ self.symm_op # 0 /\ self.use_rotations
    /\ \A w \in Ranks : pc[w] = "done" /\ DOS[w] # zero
    /\ writes = TotalDosFiles

\* the partial projections of G_latt onto shell ish, one for each partial
\* projector of the shell
PartialProjections(G_latt, ish) ==
    {[u EXCEPT !.pk = u.k, !.sh = ish, !.st = "all", !.ir = ir] :
        u \in DOMAIN G_latt, ir \in 0..(self.n_parproj[ish] - 1)}

\* C28: in density_of_states and gen_Akw with a projection scheme every
\* G_loc[ish] is zero when the k-sweep of a rank starts, and every
\* proj_type_G_loc call is handed a zero template; for 'wien2k' the object
\* returned holds each partial projection of the G_latt of the call once and
\* nothing else.
C28_ZeroTemplate ==
    (/\ arg.op \in {"density_of_states", "spaghettis", "spectral_contours"}
     /\ arg.proj_type # None) =>
        \A w \in Ranks :
            /\ (pc[w] = "kloop" /\ kpos[w] = 0) =>
                  \A ish \in DOMAIN G_loc[w] : G_loc[w][ish] = zero
            /\ \A i \in CallsTo(w, "proj_type_G_loc") :
                  /\ calls[w][i][3].G_inp = zero
                  /\ (arg.proj_type = wien2k) =>
                        calls[w][i][4].G_proj =
                            SetToBag(PartialProjections(calls[w][i][3].G_latt,
                                                        calls[w][i][2]))

C28_Witness ==
    \E w \in Ranks :
        /\ arg.op = "density_of_states" /\ arg.proj_type = wien2k
        /\ self.n_parproj[0] >= 2 /\ self.n_k >= 2
        /\ pc[w] = "done" /\ ProjectionCalls(w, 0) # {}
        /\ G_loc[w][0] # zero

\* ------------------------------------------------------------------- C29
\* the object as the constructor leaves it: the k-point data of dft_input,
\* as many k-points as bz_weights has entries
FreshObject(slf) ==
    [slf EXCEPT !.n_k = slf.bz_n_k, !.k_data = [it \in KData |-> "dft_input"]]

\* C29: when density_of_states runs after spaghettis, spectral_contours,
\* occupations or partial_charges on the same object, the k-point data it
\* sweeps over (n_k, n_orbitals, hopping, proj_mat) is the one the constructor
\* read, matched with bz_weights, and the DOS it returns is the sum over the
\* k-points of the grid, as on a fresh object.
C29_KPointDataUnchanged ==
    arg.op = "density_of_states" =>
        /\ self = FreshObject(self)
        /\ \A w \in Ranks : pc[w] = "done" => DOS[w] = Serial_DOS(self.bz_n_k)

\* ------------------------------------------------------------------- C30
\* the collectives rank w has entered, in order
Collectives(w) == SelectSeq(calls[w], LAMBDA c : c[1] \in {"barrier", "all_reduce"})

\* no rank has raised an error
NoError == \A w \in Ranks : pc[w] # "failed"

\* every rank has returned from the operation
AllReturned == \A w \in Ranks : pc[w] = "done"

\* C30: the ranks that have returned from an operation have executed the same
\* sequence of collectives, whatever the number of k-indices each was assigned
\* (zero included); and unless a rank raises an error, every call ends with
\* every rank returned: no rank stays blocked in a collective.
C30_EveryRankTerminates ==
    /\ [](\A w, v \in Ranks :
             (pc[w] = "done" /\ pc[v] = "done") => Collectives(w) = Collectives(v))
    /\ <>[](NoError => AllReturned)

C30_Witness ==
    /\ size >= 2 /\ NoError /\ AllReturned
    /\ \E w, v \in Ranks : Len(ks(w)) = 0 /\ Len(ks(v)) >= 1
    /\ \A w \in Ranks : Len(Collectives(w)) >= 2

====
